---- MODULE Spec2Model ----
(***************************************************************************)
(* nw-publisher: the multi-relay sync command (commands/sync.mjs,          *)
(* refactored version).  The model follows the code: buildEventMap runs    *)
(* the analyzers A..F over the events queried from every relay, sync()     *)
(* asks for confirmation and executeSyncPlan applies the plan relay by     *)
(* relay, one awaited relay.publish per step.                              *)
(*                                                                         *)
(* Events are records.  An event id is a number standing for the content   *)
(* hash.  A tag is a tuple <<name, value>>; the value of an "a" tag is the *)
(* tuple of its colon-separated parts, so that split(':')[2] is an index.  *)
(* JSON content is a record: json says whether JSON.parse succeeds,        *)
(* version is "" when the field is absent, routes is the sequence of       *)
(* <<route, manifest id>> pairs in key order.                              *)
(***************************************************************************)
EXTENDS Integers, Sequences, FiniteSets, TLC

\* EVENT_KINDS
ASSET == 1125
MANIFEST == 1126
SITE_INDEX == 31126
ENTRYPOINT == 11126
DELETION == 5

\* Bounds of the model.
MaxHeld == 4
MaxFaults == 1
\* deleteEventsFromRelay: const batchSize = 10
BatchSize == 10
\* deploy: publishToRelays(conns, ev, relayStats, 2, publishLog)
RetryCount == 2

\* The clock when the plan is built (Date.now() in createDeletionEvent), in
\* seconds, after every event of the catalogue; a second call may read a later one.
Now == 9
\* The clock of two calls: the same second, or the next one.
Times == {Now, Now + 1}

Relays == <<"r1", "r2">>
RelaySet == {Relays[i] : i \in DOMAIN Relays}
NoRelay == "null"
Undefined == "undefined"
NullKey == "null"

NoContent == [json |-> FALSE, version |-> "", routes |-> <<>>]
SiteContent(v, routes) == [json |-> TRUE, version |-> v, routes |-> routes]
Ev(id, kind, t, tags, content) ==
  [id |-> id, kind |-> kind, created_at |-> t, tags |-> tags, content |-> content]
NoEvent == Ev(0, 0, 0, <<>>, NoContent)

(***************************************************************************)
(* The events the operator's identity has ever signed: two assets, two     *)
(* manifests, three site-indexes (S1 and S2 carry the same version string  *)
(* under different addressable keys) and two entrypoints.                  *)
(***************************************************************************)
A1 == Ev(11, ASSET, 1, <<>>, NoContent)
A2 == Ev(12, ASSET, 1, <<>>, NoContent)
M1 == Ev(21, MANIFEST, 1, << <<"e", 11>> >>, NoContent)
M2 == Ev(22, MANIFEST, 2, << <<"e", 11>>, <<"e", 12>> >>, NoContent)
S1 == Ev(31, SITE_INDEX, 1, << <<"d", "d1">> >>, SiteContent("1.0", << <<"/", 21>> >>))
S2 == Ev(32, SITE_INDEX, 2, << <<"d", "d2">> >>, SiteContent("1.0", << <<"/", 22>> >>))
S3 == Ev(33, SITE_INDEX, 3, << <<"d", "d3">> >>, SiteContent("2.0", << <<"/", 22>> >>))
E1 == Ev(41, ENTRYPOINT, 1, << <<"a", <<"31126", "pk", "d1">> >> >>, NoContent)
E2 == Ev(42, ENTRYPOINT, 3, << <<"a", <<"31126", "pk", "d3">> >> >>, NoContent)
Catalogue == <<A1, A2, M1, M2, S1, S2, S3, E1, E2>>

\* Two more entrypoints: one as new as E2 that targets the key of E1, and a
\* newer one without an "a" tag.  The second catalogue has the four
\* entrypoints, one version that can be complete and one that cannot.
E3 == Ev(43, ENTRYPOINT, 3, << <<"a", <<"31126", "pk", "d1">> >> >>, NoContent)
E4 == Ev(44, ENTRYPOINT, 4, <<>>, NoContent)
EntrypointCatalogue == <<A1, M1, S1, S3, E1, E2, E3, E4>>

\* Events a relay may hold that the publisher would not have written: two
\* site-indexes whose JSON content has no version (under different keys), a
\* site-index whose content is not JSON, a site-index without routes and a
\* manifest without "e" tags.  The third catalogue has them beside one
\* well-formed version and the entrypoint without an "a" tag.
M3 == Ev(23, MANIFEST, 1, <<>>, NoContent)
S4 == Ev(34, SITE_INDEX, 1, << <<"d", "d4">> >>, SiteContent("", << <<"/", 21>> >>))
S5 == Ev(35, SITE_INDEX, 2, << <<"d", "d5">> >>, SiteContent("", << <<"/", 23>> >>))
S6 == Ev(36, SITE_INDEX, 2, << <<"d", "d6">> >>, NoContent)
S7 == Ev(37, SITE_INDEX, 3, << <<"d", "d7">> >>, SiteContent("3.0", <<>>))
MalformedCatalogue == <<A1, M1, M3, S1, S4, S5, S6, S7, E1, E4>>

\* ------------------------------------------------------------------ helpers
Range(s) == {s[i] : i \in DOMAIN s}
Min(S) == CHOOSE x \in S : \A y \in S : x <= y
Ids(s) == {s[i].id : i \in DOMAIN s}
IdSeq(s) == [i \in DOMAIN s |-> s[i].id]

RECURSIVE Concat(_)
Concat(ss) == IF ss = <<>> THEN <<>> ELSE Head(ss) \o Concat(Tail(ss))

\* Set semantics of insertion order: append x unless already present.
AddUnique(s, x) == IF x \in Range(s) THEN s ELSE Append(s, x)
RECURSIVE Unique(_)
Unique(s) ==
  IF s = <<>> THEN <<>>
  ELSE AddUnique(Unique(SubSeq(s, 1, Len(s) - 1)), s[Len(s)])

\* getEventId
getEventId(e) == e.id

OfKind(events, kind) == SelectSeq(events, LAMBDA e : e.kind = kind)

\* events.find(e => e.kind === kind && getEventId(e) === id), NoEvent if none
FindEvent(events, kind, id) ==
  LET hit == SelectSeq(events, LAMBDA e : e.kind = kind /\ getEventId(e) = id)
  IN IF hit = <<>> THEN NoEvent ELSE hit[1]

\* tags.filter(t => t[0] === 'e').map(t => t[1])
ETags(e) ==
  LET ts == SelectSeq(e.tags, LAMBDA t : t[1] = "e")
  IN [i \in DOMAIN ts |-> ts[i][2]]

\* tags.find(t => t[0] === name): the matching tags, first one first
TagsNamed(e, name) == SelectSeq(e.tags, LAMBDA t : t[1] = name)

\* tags.find(t => t[0] === 'd')?.[1]
DTagOf(e) == IF TagsNamed(e, "d") = <<>> THEN Undefined ELSE TagsNamed(e, "d")[1][2]

\* parts[2] of aTag.split(':')
Part3(aTag) == IF Len(aTag) >= 3 THEN aTag[3] ELSE Undefined

\* The "a" tag is usable: the tag exists and its value is not the empty string.
HasATag(e) == TagsNamed(e, "a") # <<>> /\ TagsNamed(e, "a")[1][2] # <<>>

\* aTag ? aTag.split(':')[2] : null
TargetKeyOf(e) == IF HasATag(e) THEN Part3(TagsNamed(e, "a")[1][2]) ELSE NullKey

\* content.version || 'unknown'
VersionOf(e) == IF e.content.version = "" THEN "unknown" ELSE e.content.version
\* Object.values(content.routes || {})
RouteIds(e) == [i \in DOMAIN e.content.routes |-> e.content.routes[i][2]]

\* ------------------------------------------------- STEP A: analyzeEntrypoints
\* entrypoints.reduce((prev, curr) => curr.created_at > prev.created_at ? curr : prev)
RECURSIVE NewestOf(_)
NewestOf(eps) ==
  IF Len(eps) = 1 THEN eps[1]
  ELSE LET prev == NewestOf(SubSeq(eps, 1, Len(eps) - 1))
           curr == eps[Len(eps)]
       IN IF curr.created_at > prev.created_at THEN curr ELSE prev

RECURSIVE EntrypointFold(_, _)
EntrypointFold(relayEvents, n) ==
  IF n = 0
  THEN [entrypointsByRelay |-> [r \in {} |-> <<>>],
        newestEntrypoint |-> NoEvent, targetSiteIndexDTag |-> NullKey]
  ELSE LET acc == EntrypointFold(relayEvents, n - 1)
           relayUrl == Relays[n]
           entrypoints == OfKind(relayEvents[relayUrl], ENTRYPOINT)
       IN IF entrypoints = <<>> THEN acc
          ELSE LET newest == NewestOf(entrypoints)
                   byRelay == [r \in DOMAIN acc.entrypointsByRelay \cup {relayUrl} |->
                                 IF r = relayUrl THEN entrypoints
                                 ELSE acc.entrypointsByRelay[r]]
               IN IF acc.newestEntrypoint = NoEvent
                     \/ newest.created_at > acc.newestEntrypoint.created_at
                  THEN [entrypointsByRelay |-> byRelay,
                        newestEntrypoint |-> newest,
                        targetSiteIndexDTag |->
                          IF HasATag(newest) THEN Part3(TagsNamed(newest, "a")[1][2])
                          ELSE acc.targetSiteIndexDTag]
                  ELSE [acc EXCEPT !.entrypointsByRelay = byRelay]

analyzeEntrypoints(relayEvents) == EntrypointFold(relayEvents, Len(Relays))

\* -------------------------------------------- STEP B: analyzeSiteIndexVersions
\* The site-indexes in scan order (relay by relay) whose content parses.
SiteIndexOccurrencesMutNoCatch(relayEvents) ==
  Concat([n \in DOMAIN Relays |->
    LET sis == OfKind(relayEvents[Relays[n]], SITE_INDEX)
    IN [i \in DOMAIN sis |->
          [relay |-> Relays[n], event |-> sis[i],
           dTag |-> DTagOf(sis[i]), eventId |-> getEventId(sis[i])]]])
SiteIndexOccurrences(relayEvents) ==
  Concat([n \in DOMAIN Relays |->
    LET sis == SelectSeq(relayEvents[Relays[n]],
                         LAMBDA e : e.kind = SITE_INDEX /\ e.content.json)
    IN [i \in DOMAIN sis |->
          [relay |-> Relays[n], event |-> sis[i],
           dTag |-> DTagOf(sis[i]), eventId |-> getEventId(sis[i])]]])

VersionIndex(vm, version) ==
  LET I == {i \in DOMAIN vm : vm[i].version = version}
  IN IF I = {} THEN 0 ELSE Min(I)

RECURSIVE AddAll(_, _)
AddAll(s, xs) == IF xs = <<>> THEN s ELSE AddAll(AddUnique(s, Head(xs)), Tail(xs))

RECURSIVE VersionFold(_, _)
VersionFold(occ, n) ==
  IF n = 0 THEN <<>>
  ELSE LET vm == VersionFold(occ, n - 1)
           si == occ[n]
           version == VersionOf(si.event)
           vm1 == IF VersionIndex(vm, version) = 0
                  THEN Append(vm, [version |-> version, siteIndexes |-> <<>>,
                                   routes |-> si.event.content.routes,
                                   manifestIds |-> <<>>])
                  ELSE vm
           k == VersionIndex(vm1, version)
       IN [vm1 EXCEPT ![k].siteIndexes = Append(@, si),
                      ![k].manifestIds = AddAll(@, RouteIds(si.event))]

\* versionMap: the entries in Map insertion order
analyzeSiteIndexVersions(relayEvents) ==
  LET occ == SiteIndexOccurrences(relayEvents) IN VersionFold(occ, Len(occ))

Versions(vm) == {vm[i].version : i \in DOMAIN vm}
VersionInfo(vm, version) == vm[VersionIndex(vm, version)]

\* --------------------------------------- STEP C: analyzeVersionCompleteness
IsPresent(events, kind, id) == FindEvent(events, kind, id) # NoEvent

\* isComplete of a status whose hasSiteIndex is true
IsCompleteMutAssets(status) == status.manifests.present = status.manifests.required
IsComplete(status) ==
  /\ status.manifests.present = status.manifests.required
  /\ status.assets.present = status.assets.required

VersionStatus(relayEvents, versionInfo, relay) ==
  LET events == relayEvents[relay]
      hasSiteIndex == \E i \in DOMAIN versionInfo.siteIndexes :
                        versionInfo.siteIndexes[i].relay = relay
      presentIds == SelectSeq(versionInfo.manifestIds,
                              LAMBDA id : IsPresent(events, MANIFEST, id))
      requiredAssets == Unique(Concat([i \in DOMAIN presentIds |->
                          ETags(FindEvent(events, MANIFEST, presentIds[i]))]))
      presentAssets == SelectSeq(requiredAssets, LAMBDA id : IsPresent(events, ASSET, id))
  IN IF ~hasSiteIndex
     THEN [hasSiteIndex |-> FALSE,
           manifests |-> [required |-> Len(versionInfo.manifestIds), present |-> 0],
           assets |-> [required |-> 0, present |-> 0],
           missingManifests |-> <<>>, missingAssets |-> <<>>]
     ELSE [hasSiteIndex |-> TRUE,
           manifests |-> [required |-> Len(versionInfo.manifestIds),
                          present |-> Len(presentIds)],
           assets |-> [required |-> Len(requiredAssets), present |-> Len(presentAssets)],
           missingManifests |-> SelectSeq(versionInfo.manifestIds,
                                  LAMBDA id : ~IsPresent(events, MANIFEST, id)),
           missingAssets |-> SelectSeq(requiredAssets,
                                  LAMBDA id : ~IsPresent(events, ASSET, id))]

analyzeVersionCompleteness(relayEvents, versionMap) ==
  LET rvs == [r \in RelaySet |-> [v \in Versions(versionMap) |->
                VersionStatus(relayEvents, VersionInfo(versionMap, v), r)]]
  IN [relayVersionStatus |-> rvs,
      versionCompleteness |-> [v \in Versions(versionMap) |->
        [completeOn |-> SelectSeq(Relays, LAMBDA r :
                          rvs[r][v].hasSiteIndex /\ IsComplete(rvs[r][v])),
         partialOn |-> SelectSeq(Relays, LAMBDA r :
                          rvs[r][v].hasSiteIndex /\ ~IsComplete(rvs[r][v])),
         missingOn |-> SelectSeq(Relays, LAMBDA r : ~rvs[r][v].hasSiteIndex)]]]

\* ------------------------------------------------ STEP D: identifySourceRelays
identifySourceRelaysMutPartial(versionCompleteness) ==
  [v \in DOMAIN versionCompleteness |->
    LET have == versionCompleteness[v].completeOn \o versionCompleteness[v].partialOn
    IN IF Len(have) > 0 THEN have[1] ELSE NoRelay]
identifySourceRelays(versionCompleteness) ==
  [v \in DOMAIN versionCompleteness |->
    IF Len(versionCompleteness[v].completeOn) > 0
    THEN versionCompleteness[v].completeOn[1]
    ELSE NoRelay]

\* --------------------------------------------------- createDeletionEvent
\* The id is derived from the signed fields: the kind, created_at (the clock
\* of the call, Math.floor(Date.now() / 1000)) and the referenced ids.
RECURSIVE DeletionId(_, _)
DeletionId(eventIds, now) ==
  IF eventIds = <<>> THEN DELETION * 10 + now
  ELSE DeletionId(SubSeq(eventIds, 1, Len(eventIds) - 1), now) * 100
         + eventIds[Len(eventIds)]

createDeletionEventMutFirst(eventIds, now) ==
  Ev(DeletionId(eventIds, now), DELETION, now, << <<"e", eventIds[1]>> >>, NoContent)
createDeletionEvent(eventIds, now) ==
  Ev(DeletionId(eventIds, now), DELETION, now,
     [i \in DOMAIN eventIds |-> <<"e", eventIds[i]>>], NoContent)

\* ------------------------------------------------- STEP E & F: buildSyncPlan
EmptyPlan ==
  [deleteOrphanedAssets |-> <<>>, deleteOrphanedManifests |-> <<>>,
   deleteIncompleteSiteIndexes |-> <<>>, deleteOldEntrypoints |-> <<>>,
   syncAssets |-> <<>>, syncManifests |-> <<>>, syncSiteIndexes |-> <<>>,
   syncNewEntrypoint |-> NoEvent]

\* versionInfo.siteIndexes.find(si => si.relay === relay)
FirstSiteIndexOn(versionInfo, relay) ==
  SelectSeq(versionInfo.siteIndexes, LAMBDA si : si.relay = relay)[1]

\* The manifests of the version found on the source, in manifestIds order.
VersionManifests(sourceEvents, versionInfo) ==
  LET ids == SelectSeq(versionInfo.manifestIds,
                       LAMBDA id : IsPresent(sourceEvents, MANIFEST, id))
  IN [i \in DOMAIN ids |-> FindEvent(sourceEvents, MANIFEST, ids[i])]

\* The assets those manifests reference that the source holds, without duplicates.
VersionAssets(sourceEvents, versionManifests) ==
  LET ids == Unique(SelectSeq(Concat([i \in DOMAIN versionManifests |->
                                        ETags(versionManifests[i])]),
                              LAMBDA id : IsPresent(sourceEvents, ASSET, id)))
  IN [i \in DOMAIN ids |-> FindEvent(sourceEvents, ASSET, ids[i])]

\* One iteration of the loop over versionMap.entries() (lines 302-382).
PlanVersion(plan, relayEvents, versionInfo, sourceRelay, relayVersionStatus) ==
  LET version == versionInfo.version
      hasSource == \E i \in DOMAIN versionInfo.siteIndexes :
                     versionInfo.siteIndexes[i].relay = sourceRelay
      sourceEvents == relayEvents[sourceRelay]
      versionManifests == VersionManifests(sourceEvents, versionInfo)
      versionAssets == VersionAssets(sourceEvents, versionManifests)
  IN IF sourceRelay = NoRelay
     THEN [r \in RelaySet |->
            IF relayVersionStatus[r][version].hasSiteIndex
            THEN [plan[r] EXCEPT !.deleteIncompleteSiteIndexes =
                    Append(@, FirstSiteIndexOn(versionInfo, r).event)]
            ELSE plan[r]]
     ELSE IF ~hasSource THEN plan
     ELSE [r \in RelaySet |->
            LET status == relayVersionStatus[r][version]
            IN IF r = sourceRelay THEN plan[r]
               ELSE IF ~status.hasSiteIndex
               THEN [plan[r] EXCEPT
                      !.syncSiteIndexes = Append(@, FirstSiteIndexOn(versionInfo, sourceRelay).event),
                      !.syncManifests = @ \o versionManifests,
                      !.syncAssets = @ \o versionAssets]
               ELSE IF Len(status.missingManifests) > 0 \/ Len(status.missingAssets) > 0
               THEN [plan[r] EXCEPT
                      !.syncManifests = @ \o SelectSeq(versionManifests,
                          LAMBDA m : getEventId(m) \in Range(status.missingManifests)),
                      !.syncAssets = @ \o SelectSeq(versionAssets,
                          LAMBDA a : getEventId(a) \in Range(status.missingAssets))]
               ELSE plan[r]]

RECURSIVE PlanVersions(_, _, _, _, _)
PlanVersions(n, relayEvents, versionMap, sourceRelays, relayVersionStatus) ==
  IF n = 0 THEN [r \in RelaySet |-> EmptyPlan]
  ELSE PlanVersion(
         PlanVersions(n - 1, relayEvents, versionMap, sourceRelays, relayVersionStatus),
         relayEvents, versionMap[n], sourceRelays[versionMap[n].version],
         relayVersionStatus)

\* STEP F for one relay (lines 386-420).
PlanEntrypointMutResign(plan, relay, entrypointAnalysis, now) ==
  [plan EXCEPT !.syncNewEntrypoint =
     [entrypointAnalysis.newestEntrypoint EXCEPT !.id = @ * 100 + now,
                                                 !.created_at = now]]
PlanEntrypoint(plan, relay, entrypointAnalysis, now) ==
  LET target == entrypointAnalysis.targetSiteIndexDTag
      relayEntrypoints == IF relay \in DOMAIN entrypointAnalysis.entrypointsByRelay
                          THEN entrypointAnalysis.entrypointsByRelay[relay] ELSE <<>>
      oldEntrypoints == IdSeq(SelectSeq(relayEntrypoints,
                                        LAMBDA e : TargetKeyOf(e) # target))
      hasCorrectEntrypoint == \E i \in DOMAIN relayEntrypoints :
                                TargetKeyOf(relayEntrypoints[i]) = target
      p1 == IF Len(oldEntrypoints) > 0
            THEN [plan EXCEPT !.deleteOldEntrypoints =
                    Append(@, createDeletionEvent(oldEntrypoints, now))]
            ELSE plan
  IN IF ~hasCorrectEntrypoint
     THEN [p1 EXCEPT !.syncNewEntrypoint = entrypointAnalysis.newestEntrypoint]
     ELSE p1

buildSyncPlan(relayEvents, versionMap, sourceRelays, entrypointAnalysis, relayVersionStatus, now) ==
  LET plan == PlanVersions(Len(versionMap), relayEvents, versionMap, sourceRelays,
                           relayVersionStatus)
  IN IF entrypointAnalysis.newestEntrypoint # NoEvent
        /\ entrypointAnalysis.targetSiteIndexDTag \notin {NullKey, Undefined, ""}
     THEN [r \in RelaySet |-> PlanEntrypoint(plan[r], r, entrypointAnalysis, now)]
     ELSE plan

\* buildEventMap after the queries: steps A to F on the queried events.
Analyze(relayEvents) ==
  LET entrypointAnalysis == analyzeEntrypoints(relayEvents)
      versionMap == analyzeSiteIndexVersions(relayEvents)
      c == analyzeVersionCompleteness(relayEvents, versionMap)
      sourceRelays == identifySourceRelays(c.versionCompleteness)
  IN [syncPlan |-> buildSyncPlan(relayEvents, versionMap, sourceRelays,
                                 entrypointAnalysis, c.relayVersionStatus, Now),
      versionMap |-> versionMap,
      entrypointAnalysis |-> entrypointAnalysis,
      sourceRelays |-> sourceRelays,
      relayVersionStatus |-> c.relayVersionStatus,
      versionCompleteness |-> c.versionCompleteness]

\* The lists executeSyncPlan and displaySyncPlan build from a relay's plan.
Deletions(plan) ==
  plan.deleteOrphanedAssets \o plan.deleteOrphanedManifests
    \o plan.deleteIncompleteSiteIndexes \o plan.deleteOldEntrypoints
Syncs(plan) ==
  plan.syncAssets \o plan.syncManifests \o plan.syncSiteIndexes
    \o (IF plan.syncNewEntrypoint # NoEvent THEN <<plan.syncNewEntrypoint>> ELSE <<>>)

\* kindOrder[kind] || 99
KindOrderMutRaw(kind) == kind
KindOrder(kind) ==
  CASE kind = ASSET -> 1
    [] kind = MANIFEST -> 2
    [] kind = SITE_INDEX -> 3
    [] kind = ENTRYPOINT -> 4
    [] OTHER -> 99

\* syncs.sort((a, b) => kindOrder[a.kind] - kindOrder[b.kind]): a stable sort
RECURSIVE SortSyncs(_)
SortSyncs(syncs) ==
  IF syncs = <<>> THEN <<>>
  ELSE LET s == SortSyncs(SubSeq(syncs, 1, Len(syncs) - 1))
           x == syncs[Len(syncs)]
           i == Cardinality({j \in DOMAIN s : KindOrder(s[j].kind) <= KindOrder(x.kind)})
       IN SubSeq(s, 1, i) \o <<x>> \o SubSeq(s, i + 1, Len(s))

(***************************************************************************)
(* The relay, as far as the sync command relies on it: an accepted event   *)
(* is stored under its id, and an accepted deletion event that the relay   *)
(* honours removes the events its "e" tags name.                           *)
(***************************************************************************)
RelayStore(events, event, honoured) ==
  IF event.kind = DELETION
  THEN IF honoured
       THEN SelectSeq(events, LAMBDA e : e.id \notin Range(ETags(event)))
       ELSE events
  ELSE IF event.id \in Ids(events) THEN events ELSE Append(events, event)

\* ---------------------------------------------------------------- the state
VARIABLES
  store,               \* relay -> the events the relay holds, in the order it answers
  relayEvents,         \* relay -> the events buildEventMap was given by queryAllEvents
  syncPlan, versionMap, entrypointAnalysis, sourceRelays,
  relayVersionStatus, versionCompleteness,   \* the results of steps A..F
  pc,                  \* position of sync()
  ri,                  \* executeSyncPlan: index in relays of the relay being processed
  phase,               \* executeSyncPlan: "idle", "deleting" or "publishing"
  k,                   \* index of the next event of the current loop
  sorted,              \* the sorted publish list of the current relay
  relayUpdated,
  stats,
  log,                 \* relay -> what was sent to it: [phase, event, ok]
  faults,              \* failures and rejections so far
  config,              \* process.env as sync() read it: [skHex, relayList]
  conns,               \* the connection attempts so far: [relay, stage, ok]
  answers,             \* the answers given to the confirmation prompt
  report,              \* relay -> the line displaySyncPlan printed for it
  qImpl,               \* queryEvents: the module whose queryEvents is running
  qPhase,              \* queryEvents: "idle", "pending" or "resolved" (the promise)
  qEvents,             \* queryEvents: the array events, which the promise resolves to
  qReturned,           \* what the array held at the moment the promise resolved
  qTimer,              \* the timer of setTimeout: "none", "armed", "fired", "cleared"
  qSubOpen,            \* the subscription is open
  qEose,               \* the relay has sent end-of-stored-events
  mStore,              \* commands/sync.mjs: relay -> the events the relay holds
  mMissing,            \* commands/sync.mjs: relay -> the events findMissingEvents gave it
  mPc,                 \* commands/sync.mjs: position of sync()
  mRi,                 \* commands/sync.mjs: index in needsSync of the next relay
  mStats,              \* commands/sync.mjs: stats
  mFaults,             \* commands/sync.mjs: failures so far
  oEvents,             \* cleanup --orphans: the events queried from the relay
  oAnalysis,           \* cleanup --orphans: the result of analyzeOrphans
  oPc,                 \* cleanup --orphans: "idle", "queried" or "analyzed"
  pInput,              \* parseRelayUrls: the argument
  pResult,             \* parseRelayUrls: the array returned
  pPc,                 \* parseRelayUrls: "idle", "called" or "returned"
  cStore,              \* cleanup: relay -> the events the relay holds
  cArgs,               \* cleanup: the parsed arguments
  cTargets,            \* cleanup: the deletions to request, [relay, eventIds]
  cAnswers,            \* cleanup: the answers given to the confirmation prompt
  cSent,               \* cleanup: relay -> the deletion events sent to it
  cK,                  \* cleanup: index in cTargets of the next relay
  cPc,                 \* cleanup: position of the mode
  dRun,                \* deploy: the ids of the events the run publishes, in order
  dConns,              \* deploy: relay -> connected
  dE,                  \* deploy: index in dRun of the event being published
  dAttempt,            \* publishToRelays: attempt
  dResults,            \* publishToRelays: results, by index of connectedRelays
  dSends,              \* deploy: relay -> the publications sent to it
  dStats,              \* deploy: relayStats
  dPublishLog,         \* deploy: publishLog
  dDeleted,            \* deploy: relay -> the deletion requests sent to it
  dHeld,               \* deploy: relay -> the ids of the run's events it holds
  dRefused,            \* deploy: publications refused so far
  dPc,                 \* deploy: position of main
  xEvents,             \* delete-orphans: the events the relay holds
  xOrphans,            \* delete-orphans: the orphans of the last analysis
  xPasses,             \* delete-orphans: removals done so far
  xPc                  \* delete-orphans: "idle", "queried" or "analyzed"

analysisVars == <<relayEvents, syncPlan, versionMap, entrypointAnalysis, sourceRelays,
                  relayVersionStatus, versionCompleteness>>
execVars == <<ri, phase, k, sorted, relayUpdated>>
histVars == <<config, conns, answers, report>>
mainVars == <<store, analysisVars, pc, execVars, stats, log, faults, histVars>>
queryVars == <<qImpl, qPhase, qEvents, qReturned, qTimer, qSubOpen, qEose>>
missingVars == <<mStore, mMissing, mPc, mRi, mStats, mFaults>>
orphanVars == <<oEvents, oAnalysis, oPc>>
parseVars == <<pInput, pResult, pPc>>
cleanupVars == <<cStore, cArgs, cTargets, cAnswers, cSent, cK, cPc>>
deployVars == <<dRun, dConns, dE, dAttempt, dResults, dSends, dStats, dPublishLog,
                dDeleted, dHeld, dRefused, dPc>>
deleteOrphansVars == <<xEvents, xOrphans, xPasses, xPc>>
otherVars == <<parseVars, cleanupVars, deployVars, deleteOrphansVars>>
commandVars == <<mainVars, queryVars, missingVars, orphanVars>>
sideVars == <<queryVars, missingVars, orphanVars, otherVars>>
vars == <<mainVars, sideVars>>

RECURSIVE Ascending(_)
Ascending(S) == IF S = {} THEN <<>> ELSE <<Min(S)>> \o Ascending(S \ {Min(S)})
Reverse(s) == [i \in DOMAIN s |-> s[Len(s) + 1 - i]]

\* The order in which a relay answers a query is its own: every second relay
\* lists its events in the reverse order of the others.
HeldFrom(catalogue, n, S) ==
  LET asc == [i \in DOMAIN Ascending(S) |-> catalogue[Ascending(S)[i]]]
  IN IF n % 2 = 1 THEN asc ELSE Reverse(asc)
HeldList(n, S) == HeldFrom(Catalogue, n, S)

RelayIndex(r) == CHOOSE n \in DOMAIN Relays : Relays[n] = r

\* A variable of process.env: unset, or set to a string (<<>> is "").
EnvUnset == [set |-> FALSE, value |-> <<>>]
Env(value) == [set |-> TRUE, value |-> value]
\* !x for a variable of the environment: undefined or the empty string
Falsy(x) == ~x.set \/ x.value = <<>>

\* The state of sync() when it is entered.
InitSync ==
  /\ relayEvents = [r \in RelaySet |-> <<>>]
  /\ syncPlan = [r \in RelaySet |-> EmptyPlan]
  /\ versionMap = <<>>
  /\ entrypointAnalysis = analyzeEntrypoints([r \in RelaySet |-> <<>>])
  /\ sourceRelays = <<>>
  /\ relayVersionStatus = [r \in RelaySet |-> <<>>]
  /\ versionCompleteness = <<>>
  /\ pc = "config"
  /\ ri = 1
  /\ phase = "idle"
  /\ k = 1
  /\ sorted = <<>>
  /\ relayUpdated = FALSE
  /\ stats = [totalDeleted |-> 0, totalPublished |-> 0, totalFailed |-> 0,
              relaysUpdated |-> 0]
  /\ log = [r \in RelaySet |-> <<>>]
  /\ faults = 0
  /\ config = [skHex |-> EnvUnset, relayList |-> EnvUnset]
  /\ conns = <<>>
  /\ answers = <<>>
  /\ report = [r \in RelaySet |-> "none"]

\* No query of the query modules is running.
QueryIdle ==
  /\ qImpl = "none"
  /\ qPhase = "idle"
  /\ qEvents = <<>>
  /\ qReturned = <<>>
  /\ qTimer = "none"
  /\ qSubOpen = FALSE
  /\ qEose = FALSE
\* commands/sync.mjs is not running.
MissingIdle ==
  /\ mStore = [r \in RelaySet |-> <<>>]
  /\ mMissing = [r \in RelaySet |-> <<>>]
  /\ mPc = "idle"
  /\ mRi = 1
  /\ mStats = [totalPublished |-> 0, totalFailed |-> 0, relaysUpdated |-> 0]
  /\ mFaults = 0
\* cleanup --orphans is not running.
NoOrphans == [assets |-> <<>>, manifests |-> <<>>, indexes |-> <<>>]
OrphansIdle ==
  /\ oEvents = <<>>
  /\ oAnalysis = NoOrphans
  /\ oPc = "idle"
\* A value of JavaScript as parseRelayUrls tells them apart: an array, a
\* string (its comma-separated pieces, each a sequence of tokens), anything else.
ArrayValue(v) == [type |-> "array", value |-> v]
StringValue(v) == [type |-> "string", value |-> v]
UndefinedValue == [type |-> "undefined", value |-> <<>>]

\* parseRelayUrls is not running.
ParseIdle ==
  /\ pInput = UndefinedValue
  /\ pResult = <<>>
  /\ pPc = "idle"
\* cleanup is not running.
NoVersion == "null"
CleanupIdle ==
  /\ cStore = [r \in RelaySet |-> <<>>]
  /\ cArgs = [targetVersion |-> NoVersion, orphansOnly |-> FALSE, dryRun |-> FALSE]
  /\ cTargets = <<>>
  /\ cAnswers = <<>>
  /\ cSent = [r \in RelaySet |-> <<>>]
  /\ cK = 1
  /\ cPc = "idle"
\* deploy is not running.
DeployIdle ==
  /\ dRun = <<>>
  /\ dConns = [r \in RelaySet |-> FALSE]
  /\ dE = 1
  /\ dAttempt = 0
  /\ dResults = <<>>
  /\ dSends = [r \in RelaySet |-> <<>>]
  /\ dStats = <<>>
  /\ dPublishLog = [r \in RelaySet |-> <<>>]
  /\ dDeleted = [r \in RelaySet |-> <<>>]
  /\ dHeld = [r \in RelaySet |-> <<>>]
  /\ dRefused = 0
  /\ dPc = "idle"
\* delete-orphans is not running.
DeleteOrphansIdle ==
  /\ xEvents = <<>>
  /\ xOrphans = NoOrphans
  /\ xPasses = 0
  /\ xPc = "idle"
OthersIdle == ParseIdle /\ CleanupIdle /\ DeployIdle /\ DeleteOrphansIdle
SideIdle == QueryIdle /\ MissingIdle /\ OrphansIdle /\ OthersIdle

\* The state when sync() is entered, the relays holding events of the catalogue.
InitFrom(catalogue) ==
  /\ \E held \in [RelaySet -> SUBSET (DOMAIN catalogue)] :
       /\ Cardinality({<<r, i>> \in RelaySet \X DOMAIN catalogue : i \in held[r]}) <= MaxHeld
       /\ store = [r \in RelaySet |-> HeldFrom(catalogue, RelayIndex(r), held[r])]
  /\ InitSync

Init == InitFrom(Catalogue) /\ SideIdle
InitEntrypoints == InitFrom(EntrypointCatalogue) /\ SideIdle
InitMalformed == InitFrom(MalformedCatalogue) /\ SideIdle

\* Every relay holds the same events of the first catalogue and of E3, each in
\* its own order.
MirrorCatalogue == Append(Catalogue, E3)
InitMirror ==
  /\ InitSync /\ SideIdle
  /\ \E S \in SUBSET (DOMAIN MirrorCatalogue) :
       store = [r \in RelaySet |-> HeldFrom(MirrorCatalogue, RelayIndex(r), S)]

\* String.prototype.trim on a string given as its sequence of tokens
RECURSIVE Trim(_)
Trim(str) ==
  IF str = <<>> THEN str
  ELSE IF Head(str) = " " THEN Trim(Tail(str))
  ELSE IF str[Len(str)] = " " THEN Trim(SubSeq(str, 1, Len(str) - 1))
  ELSE str

\* parseRelayUrls on a string given as its comma-separated pieces:
\* split(","), trim each, keep those starting with wss:// or ws://
\* An array is returned as it is, anything that is no string gives [].
parseRelayUrlsMutNoTrim(relays) ==
  IF relays.type = "array" THEN relays.value
  ELSE SelectSeq(relays.value, LAMBDA url : url # <<>> /\ url[1] \in {"wss://", "ws://"})
parseRelayUrls(relays) ==
  IF relays.type = "array" THEN relays.value
  ELSE IF relays.type = "string"
  THEN LET urls == [i \in DOMAIN relays.value |-> Trim(relays.value[i])]
       IN SelectSeq(urls, LAMBDA url : url # <<>> /\ url[1] \in {"wss://", "ws://"})
  ELSE <<>>

\* process.env.NOSTR_SK_HEX, and process.env.RELAYS || process.env.NOSTR_RELAYS
\* as its comma-separated pieces; the last list names the relays of the model.
SkValues == {EnvUnset, Env(<<"sk">>)}
RelayLists ==
  {EnvUnset, Env(<<>>),
   Env(<< <<"http://", "r1">>, <<" ">> >>),
   Env(<< <<"wss://", "r1">>, <<"r9">>, <<" ", "wss://", "r2", " ">> >>)}

\* The three checks of sync() that throw ConfigError.
ConfigOkMutNoUrlCheck(skHex, relayList) == ~Falsy(skHex) /\ ~Falsy(relayList)
ConfigOk(skHex, relayList) ==
  /\ ~Falsy(skHex)
  /\ ~Falsy(relayList)
  /\ Len(parseRelayUrls(StringValue(relayList.value))) # 0

\* sync() reads the environment; a ConfigError goes to handleError, which exits.
LoadConfig ==
  /\ pc = "config"
  /\ \E skHex \in SkValues, relayList \in RelayLists :
       \* the relay list is read after the check of the key
       /\ Falsy(skHex) => relayList = EnvUnset
       /\ config' = [skHex |-> skHex, relayList |-> relayList]
       /\ pc' = IF ConfigOk(skHex, relayList) THEN "start" ELSE "configError"
  /\ UNCHANGED <<store, analysisVars, execVars, stats, log, faults, conns, answers, report>>
  /\ UNCHANGED sideVars

\* A relay of the plan has nothing to delete and nothing to publish.
NoActionsMutNever(deletions, syncs) == FALSE
NoActions(deletions, syncs) == Len(deletions) = 0 /\ Len(syncs) = 0

\* displaySyncPlan: the line printed for every relay of the plan
displaySyncPlan(plan) ==
  [r \in RelaySet |->
     IF NoActions(Deletions(plan[r]), Syncs(plan[r])) THEN "Complete"
     ELSE "Needs attention"]

\* displaySyncPlan totals
TotalDeletions(plan) ==
  Len(Concat([n \in DOMAIN Relays |-> Deletions(plan[Relays[n]])]))
TotalSyncs(plan) ==
  Len(Concat([n \in DOMAIN Relays |-> Syncs(plan[Relays[n]])]))

(***************************************************************************)
(* sync() up to the prompt: buildEventMap queries every relay (a relay     *)
(* that cannot be connected to or queried answers []), runs steps A..F,    *)
(* and sync() exits when no version was found, returns when the plan is    *)
(* empty and otherwise asks for confirmation.                              *)
(***************************************************************************)
\* queryAllEvents: the events the relay answers with, [] when connecting or
\* querying throws.
queryAllEventsMutKeep(held, fails) == held
queryAllEvents(held, fails) == IF fails THEN <<>> ELSE held

\* sync() returns with "All relays are in sync!" instead of prompting
AllInSyncMutInverted(totalDeletions, totalSyncs) == totalDeletions + totalSyncs > 0
AllInSync(totalDeletions, totalSyncs) == totalDeletions = 0 /\ totalSyncs = 0

BuildEventMap ==
  /\ pc = "start"
  /\ \E failed \in SUBSET RelaySet :
       /\ Cardinality(failed) <= MaxFaults
       /\ LET queried == [r \in RelaySet |-> queryAllEvents(store[r], r \in failed)]
              a == Analyze(queried)
          IN /\ relayEvents' = queried
             /\ syncPlan' = a.syncPlan
             /\ versionMap' = a.versionMap
             /\ entrypointAnalysis' = a.entrypointAnalysis
             /\ sourceRelays' = a.sourceRelays
             /\ relayVersionStatus' = a.relayVersionStatus
             /\ versionCompleteness' = a.versionCompleteness
             /\ pc' = IF Len(a.versionMap) = 0 THEN "exit"
                      ELSE IF AllInSync(TotalDeletions(a.syncPlan), TotalSyncs(a.syncPlan))
                      THEN "insync"
                      ELSE "prompt"
             /\ report' = IF Len(a.versionMap) = 0 THEN report
                          ELSE displaySyncPlan(a.syncPlan)
       /\ faults' = Cardinality(failed)
       /\ conns' = conns \o [n \in DOMAIN Relays |->
                      [relay |-> Relays[n], stage |-> "query", ok |-> Relays[n] \notin failed]]
  /\ UNCHANGED <<store, execVars, stats, log, config, answers>>
  /\ UNCHANGED sideVars

\* What the operator may type at the prompt, as sequences of tokens: the word
\* between blanks, in lower case, nothing, and followed by more.
Answers ==
  {<<" ", "SYNC", " ">>, <<"sync">>, <<>>, <<"SYNC", " ", "now">>}

\* answer.trim() !== "SYNC" is false
ConfirmedMutAny(answer) == Trim(answer) # <<>>
Confirmed(answer) == Trim(answer) = <<"SYNC">>

Confirm ==
  /\ pc = "prompt"
  /\ \E answer \in Answers :
       /\ answers' = Append(answers, answer)
       /\ pc' = IF ~Confirmed(answer) THEN "cancelled" ELSE "exec"
  /\ UNCHANGED <<store, analysisVars, execVars, stats, log, faults, config, conns, report>>
  /\ UNCHANGED sideVars

\* ----------------------------------------------------------- executeSyncPlan
CurrentRelay == Relays[ri]
AfterRelay(n) == IF n > Len(Relays) THEN "done" ELSE "exec"

\* The catch of the relay's try block: the for loop goes on to the next relay.
AfterFailedConnectMutRetry(n) == n
AfterFailedConnect(n) == n + 1

\* The catch of the relay's try block: what it adds to stats.totalFailed
FailedOnConnectMutOne(deletions, syncs) == 1
FailedOnConnect(deletions, syncs) == Len(deletions) + Len(syncs)

\* for (const relayUrl of relays): skip, fail to connect, or connect
Connect ==
  /\ pc = "exec" /\ phase = "idle" /\ ri <= Len(Relays)
  /\ LET deletions == Deletions(syncPlan[CurrentRelay])
         syncs == Syncs(syncPlan[CurrentRelay])
     IN IF NoActions(deletions, syncs)
        THEN /\ ri' = ri + 1
             /\ pc' = AfterRelay(ri + 1)
             /\ UNCHANGED <<phase, k, sorted, relayUpdated, stats, faults, conns>>
        ELSE \E ok \in BOOLEAN :
             /\ ~ok => faults < MaxFaults
             /\ conns' = Append(conns, [relay |-> CurrentRelay, stage |-> "execute",
                                        ok |-> ok])
             /\ IF ok
                THEN /\ phase' = "deleting"
                     /\ k' = 1
                     /\ relayUpdated' = FALSE
                     /\ UNCHANGED <<ri, pc, sorted, stats, faults>>
                ELSE /\ stats' = [stats EXCEPT !.totalFailed = @ + FailedOnConnect(deletions, syncs)]
                     /\ ri' = AfterFailedConnect(ri)
                     /\ pc' = AfterRelay(AfterFailedConnect(ri))
                     /\ faults' = faults + 1
                     /\ UNCHANGED <<phase, k, sorted, relayUpdated>>
  /\ UNCHANGED <<store, analysisVars, log, config, answers, report>>
  /\ UNCHANGED sideVars

\* The deleting loop is over when every deletion has been awaited.
DeletionsDoneMutEarly(n, deletions) == n > 1 \/ deletions = <<>>
DeletionsDone(n, deletions) == n > Len(deletions)

\* The index after one iteration of either loop: the catch inside the loop
\* body counts the failure and the loop goes on.
AfterAttemptMutAbort(n, ok, len) == IF ok THEN n + 1 ELSE len + 1
AfterAttempt(n, ok, len) == n + 1

\* Step 1, one iteration: await relay.publish(event)
Delete ==
  /\ pc = "exec" /\ phase = "deleting"
  /\ ~DeletionsDone(k, Deletions(syncPlan[CurrentRelay]))
  /\ LET event == Deletions(syncPlan[CurrentRelay])[k]
     IN \E ok \in BOOLEAN, honoured \in BOOLEAN :
          /\ ~(ok /\ honoured) => faults < MaxFaults
          /\ ~ok => honoured
          /\ faults' = IF ok /\ honoured THEN faults ELSE faults + 1
          /\ log' = [log EXCEPT ![CurrentRelay] =
                       Append(@, [phase |-> "deleting", event |-> event, ok |-> ok])]
          /\ IF ok
             THEN /\ store' = [store EXCEPT ![CurrentRelay] = RelayStore(@, event, honoured)]
                  /\ stats' = [stats EXCEPT !.totalDeleted = @ + 1]
                  /\ relayUpdated' = TRUE
             ELSE /\ stats' = [stats EXCEPT !.totalFailed = @ + 1]
                  /\ UNCHANGED <<store, relayUpdated>>
          /\ k' = AfterAttempt(k, ok, Len(Deletions(syncPlan[CurrentRelay])))
  /\ UNCHANGED <<analysisVars, pc, ri, phase, sorted, histVars>>
  /\ UNCHANGED sideVars

\* Step 2 begins: the publish list is sorted by layer
BeginPublish ==
  /\ pc = "exec" /\ phase = "deleting"
  /\ DeletionsDone(k, Deletions(syncPlan[CurrentRelay]))
  /\ phase' = "publishing"
  /\ sorted' = SortSyncs(Syncs(syncPlan[CurrentRelay]))
  /\ k' = 1
  /\ UNCHANGED <<store, analysisVars, pc, ri, relayUpdated, stats, log, faults, histVars>>
  /\ UNCHANGED sideVars

\* Step 2, one iteration: await relay.publish(event)
Publish ==
  /\ pc = "exec" /\ phase = "publishing" /\ k <= Len(sorted)
  /\ LET event == sorted[k]
     IN \E ok \in BOOLEAN, honoured \in BOOLEAN :
          /\ ~(ok /\ honoured) => faults < MaxFaults
          /\ ~ok => honoured
          /\ event.kind # DELETION => honoured
          /\ faults' = IF ok /\ honoured THEN faults ELSE faults + 1
          /\ log' = [log EXCEPT ![CurrentRelay] =
                       Append(@, [phase |-> "publishing", event |-> event, ok |-> ok])]
          /\ IF ok
             THEN /\ store' = [store EXCEPT ![CurrentRelay] = RelayStore(@, event, honoured)]
                  /\ stats' = [stats EXCEPT !.totalPublished = @ + 1]
                  /\ relayUpdated' = TRUE
             ELSE /\ stats' = [stats EXCEPT !.totalFailed = @ + 1]
                  /\ UNCHANGED <<store, relayUpdated>>
          /\ k' = AfterAttempt(k, ok, Len(sorted))
  /\ UNCHANGED <<analysisVars, pc, ri, phase, sorted, histVars>>
  /\ UNCHANGED sideVars

\* How an awaited publish ends when the relay never answers it: a wait raced
\* against a timer is rejected when the timer fires, a bare await never returns.
AwaitUnanswered(bounded) == IF bounded THEN "rejected" ELSE "blocked"

\* executeSyncPlan awaits relay.publish(event) itself in both loops, not
\* publishEvent, which races the publish against NETWORK.PUBLISH_TIMEOUT.
ExecPublishBounded == FALSE

\* Either loop, the relay never answering the publish of the next event.
AwaitForever ==
  /\ pc = "exec"
  /\ \/ phase = "deleting" /\ ~DeletionsDone(k, Deletions(syncPlan[CurrentRelay]))
     \/ phase = "publishing" /\ k <= Len(sorted)
  /\ faults < MaxFaults
  /\ AwaitUnanswered(ExecPublishBounded) = "blocked"
  /\ pc' = "blocked"
  /\ faults' = faults + 1
  /\ UNCHANGED <<store, analysisVars, execVars, stats, log, histVars>>
  /\ UNCHANGED sideVars

\* closeRelay, and on to the next relay
CloseRelay ==
  /\ pc = "exec" /\ phase = "publishing" /\ k > Len(sorted)
  /\ stats' = [stats EXCEPT !.relaysUpdated = IF relayUpdated THEN @ + 1 ELSE @]
  /\ ri' = ri + 1
  /\ pc' = AfterRelay(ri + 1)
  /\ phase' = "idle"
  /\ k' = 1
  /\ sorted' = <<>>
  /\ relayUpdated' = FALSE
  /\ UNCHANGED <<store, analysisVars, log, faults, histVars>>
  /\ UNCHANGED sideVars

Next ==
  \/ LoadConfig
  \/ BuildEventMap
  \/ Confirm
  \/ Connect
  \/ Delete
  \/ BeginPublish
  \/ Publish
  \/ AwaitForever
  \/ CloseRelay

Spec == Init /\ [][Next]_vars

\* The same command over the catalogue of entrypoints.
SpecEntrypoints == InitEntrypoints /\ [][Next]_vars

\* sync() up to the confirmation, over the catalogue of entrypoints.
NextPlan ==
  \/ LoadConfig
  \/ BuildEventMap
  \/ Confirm
SpecPlan == InitEntrypoints /\ [][NextPlan]_vars

\* sync() up to the confirmation, over the catalogue of malformed events.
SpecMalformed == InitMalformed /\ [][NextPlan]_vars

\* sync() up to the confirmation, the relays holding the same events.
SpecMirror == InitMirror /\ [][NextPlan]_vars

\* ---------------------------------------------------------------- queryEvents
\* The two queryEvents of the repository: relay.mjs and lib/relay-query.mjs.
QueryImpls == {"relay.mjs", "relay-query.mjs"}
\* The most events a relay delivers to one subscription, and what it delivers.
MaxStream == 3
StreamEvents == {A1, M1, S1}

InitQuery == InitFrom(<<>>) /\ QueryIdle /\ MissingIdle /\ OrphansIdle /\ OthersIdle

\* The timeout callback closes the subscription in relay.mjs only; in
\* relay-query.mjs it is () => resolve(events).
TimeoutClosesSub(impl) == impl = "relay.mjs"

\* queryEvents(relay, filters, timeout): the promise executor arms the timer and
\* subscribes.
QueryEvents ==
  /\ qPhase = "idle"
  /\ \E impl \in QueryImpls : qImpl' = impl
  /\ qPhase' = "pending"
  /\ qEvents' = <<>>
  /\ qTimer' = "armed"
  /\ qSubOpen' = TRUE
  /\ UNCHANGED <<qReturned, qEose, mainVars, missingVars, orphanVars, otherVars>>

\* resolve(events): settles the promise the first time, does nothing afterwards.
\* The promise resolves to the array itself.
Resolve ==
  /\ qPhase' = "resolved"
  /\ qReturned' = IF qPhase = "pending" THEN qEvents ELSE qReturned

\* onevent: events.push(event), for as long as the subscription is open
OnEvent ==
  /\ qSubOpen
  /\ Len(qEvents) < MaxStream
  /\ \E event \in StreamEvents : qEvents' = Append(qEvents, event)
  /\ UNCHANGED <<qImpl, qPhase, qReturned, qTimer, qSubOpen, qEose, mainVars, missingVars, orphanVars, otherVars>>

\* oneose: clearTimeout(timeoutId); sub.close(); resolve(events)
OnEose ==
  /\ qSubOpen /\ ~qEose
  /\ qEose' = TRUE
  /\ qTimer' = IF qTimer = "armed" THEN "cleared" ELSE qTimer
  /\ qSubOpen' = FALSE
  /\ Resolve
  /\ UNCHANGED <<qImpl, qEvents, mainVars, missingVars, orphanVars, otherVars>>

\* The callback of setTimeout
OnTimeout ==
  /\ qTimer = "armed"
  /\ qTimer' = "fired"
  /\ qSubOpen' = IF TimeoutClosesSub(qImpl) THEN FALSE ELSE qSubOpen
  /\ Resolve
  /\ UNCHANGED <<qImpl, qEvents, qEose, mainVars, missingVars, orphanVars, otherVars>>

NextQuery ==
  \/ QueryEvents
  \/ OnEvent
  \/ OnEose
  \/ OnTimeout
SpecQuery == InitQuery /\ [][NextQuery]_vars

\* ------------------------------------------------ commands/sync.mjs: sync
MissingCatalogue == <<A1, M1, S1, E1, E2>>

\* sync() of commands/sync.mjs after the environment was read.
InitMissing ==
  /\ InitFrom(<<>>) /\ QueryIdle /\ OrphansIdle /\ OthersIdle
  /\ \E held \in [RelaySet -> SUBSET (DOMAIN MissingCatalogue)] :
       mStore = [r \in RelaySet |-> HeldFrom(MissingCatalogue, RelayIndex(r), held[r])]
  /\ mMissing = [r \in RelaySet |-> <<>>]
  /\ mPc = "start"
  /\ mRi = 1
  /\ mStats = [totalPublished |-> 0, totalFailed |-> 0, relaysUpdated |-> 0]
  /\ mFaults = 0

\* buildEventMap of commands/sync.mjs: eventMap holds the first event of every
\* id in the order of the scan, relayMap the relays that answered with the id.
EventMapOf(scanned) ==
  LET all == Concat([n \in DOMAIN Relays |-> scanned[Relays[n]]])
  IN SelectSeq([i \in DOMAIN all |-> [at |-> i, event |-> all[i]]],
               LAMBDA x : \A j \in 1..(x.at - 1) : getEventId(all[j]) # getEventId(x.event))
RelayMapOf(scanned, eventId) == {r \in RelaySet : eventId \in Ids(scanned[r])}

\* findMissingEvents: for every relay, the events of eventMap whose relay set
\* does not have the relay
findMissingEvents(scanned) ==
  LET eventMap == EventMapOf(scanned)
      events == [i \in DOMAIN eventMap |-> eventMap[i].event]
  IN [r \in RelaySet |->
        SelectSeq(events, LAMBDA e : r \notin RelayMapOf(scanned, getEventId(e)))]

\* displayMissingReport: the relays with missing events, in the order of relays
NeedsSync(missing) == SelectSeq(Relays, LAMBDA r : Len(missing[r]) > 0)

\* buildEventMap, findMissingEvents and displayMissingReport: sync() exits when
\* no event was found and returns when nothing is missing.
ScanMissing ==
  /\ mPc = "start"
  /\ \E failed \in SUBSET RelaySet :
       /\ Cardinality(failed) <= MaxFaults
       /\ mFaults' = Cardinality(failed)
       /\ LET scanned == [r \in RelaySet |-> queryAllEvents(mStore[r], r \in failed)]
              missing == findMissingEvents(scanned)
          IN /\ mMissing' = missing
             /\ mPc' = IF EventMapOf(scanned) = <<>> THEN "exit"
                       ELSE IF NeedsSync(missing) = <<>> THEN "insync"
                       ELSE "prompt"
  /\ UNCHANGED <<mStore, mRi, mStats, mainVars, queryVars, orphanVars, otherVars>>

ConfirmMissing ==
  /\ mPc = "prompt"
  /\ \E answer \in Answers :
       mPc' = IF ~Confirmed(answer) THEN "cancelled" ELSE "sync"
  /\ UNCHANGED <<mStore, mMissing, mRi, mStats, mFaults, mainVars, queryVars, orphanVars, otherVars>>

\* The relay after the accepted events of the list were stored, in order.
RECURSIVE PublishAll(_, _, _, _)
PublishAll(held, events, rejected, n) ==
  IF n > Len(events) THEN held
  ELSE PublishAll(IF n \in rejected THEN held ELSE RelayStore(held, events[n], TRUE),
                  events, rejected, n + 1)

\* syncToRelay for the next relay of needsSync: the connection fails, or the
\* events are published in the order of their kinds, some of them rejected.
SyncToRelay ==
  /\ mPc = "sync"
  /\ LET needsSync == NeedsSync(mMissing)
         relayUrl == needsSync[mRi]
         sorted1 == SortSyncs(mMissing[relayUrl])
     IN \E connected \in BOOLEAN, rejected \in SUBSET (DOMAIN sorted1) :
          /\ ~connected => rejected = {}
          /\ mFaults + Cardinality(rejected) + (IF connected THEN 0 ELSE 1) <= MaxFaults
          /\ mFaults' = mFaults + Cardinality(rejected) + (IF connected THEN 0 ELSE 1)
          /\ LET success == IF connected THEN Len(sorted1) - Cardinality(rejected) ELSE 0
                 failed == IF connected THEN Cardinality(rejected) ELSE Len(sorted1)
             IN /\ mStore' = IF connected
                             THEN [mStore EXCEPT ![relayUrl] = PublishAll(@, sorted1, rejected, 1)]
                             ELSE mStore
                /\ mStats' = [totalPublished |-> mStats.totalPublished + success,
                              totalFailed |-> mStats.totalFailed + failed,
                              relaysUpdated |-> IF success > 0 THEN mStats.relaysUpdated + 1
                                                ELSE mStats.relaysUpdated]
          /\ mRi' = mRi + 1
          /\ mPc' = IF mRi + 1 > Len(needsSync) THEN "done" ELSE "sync"
  /\ UNCHANGED <<mMissing, mainVars, queryVars, orphanVars, otherVars>>

NextMissing ==
  \/ ScanMissing
  \/ ConfirmMissing
  \/ SyncToRelay
SpecMissing == InitMissing /\ [][NextMissing]_vars

\* --------------------------------------------- cleanup-utils: analyzeOrphans
\* The author of every event the query returns: its filter is authors: [pubkey].
AuthorKey == "pk"

\* cleanup --orphans has queried a relay that holds events of the first
\* catalogue, in either order.
InitOrphans ==
  /\ InitFrom(<<>>) /\ QueryIdle /\ MissingIdle /\ OthersIdle
  /\ \E S \in SUBSET (DOMAIN Catalogue), n \in DOMAIN Relays :
       oEvents = HeldFrom(Catalogue, n, S)
  /\ oAnalysis = NoOrphans
  /\ oPc = "queried"

\* Step 1: the site-index each entrypoint's first "a" tag names, by author and
\* "d" tag; the first such site-index of the list.
ReferencedIndexes(events) ==
  LET indexes == OfKind(events, SITE_INDEX)
      entrypoints == OfKind(events, ENTRYPOINT)
      IndexOf(entrypoint) ==
        LET aTag == TagsNamed(entrypoint, "a")[1][2]
            hit == SelectSeq(indexes, LAMBDA e :
                     /\ Len(aTag) >= 2 /\ aTag[2] = AuthorKey
                     /\ \E t \in Range(e.tags) : t[1] = "d" /\ t[2] = Part3(aTag))
        IN IF hit = <<>> THEN {} ELSE {getEventId(hit[1])}
  IN UNION {IndexOf(ep) : ep \in {e \in Range(entrypoints) : TagsNamed(e, "a") # <<>>}}

\* Step 2: the "e" tags of the referenced site-indexes, of all when there is no
\* entrypoint
ReferencedManifests(events) ==
  UNION {Range(ETags(index)) : index \in
           {e \in Range(OfKind(events, SITE_INDEX)) :
              \/ getEventId(e) \in ReferencedIndexes(events)
              \/ Len(OfKind(events, ENTRYPOINT)) = 0}}

\* Step 3: the "e" tags of the referenced manifests, of all when there is no
\* site-index
ReferencedAssets(events) ==
  UNION {Range(ETags(manifest)) : manifest \in
           {e \in Range(OfKind(events, MANIFEST)) :
              \/ getEventId(e) \in ReferencedManifests(events)
              \/ Len(OfKind(events, SITE_INDEX)) = 0}}

analyzeOrphans(events) ==
  [assets |-> SelectSeq(OfKind(events, ASSET),
                        LAMBDA e : getEventId(e) \notin ReferencedAssets(events)),
   manifests |-> SelectSeq(OfKind(events, MANIFEST),
                           LAMBDA e : getEventId(e) \notin ReferencedManifests(events)),
   indexes |-> SelectSeq(OfKind(events, SITE_INDEX),
                         LAMBDA e : /\ getEventId(e) \notin ReferencedIndexes(events)
                                    /\ Len(OfKind(events, ENTRYPOINT)) > 0)]

\* cleanup --orphans: const orphans = analyzeOrphans(events)
AnalyzeOrphans ==
  /\ oPc = "queried"
  /\ oAnalysis' = analyzeOrphans(oEvents)
  /\ oPc' = "analyzed"
  /\ UNCHANGED <<oEvents, mainVars, queryVars, missingVars, otherVars>>

NextOrphans == AnalyzeOrphans
SpecOrphans == InitOrphans /\ [][NextOrphans]_vars

\* -------------------------------------------------------------- parseRelayUrls
\* The pieces between the commas of a relay list, as sequences of tokens, and
\* the most pieces or elements an argument has.
MaxPieces == 3
Pieces ==
  {<<>>, <<" ">>, <<"wss://", "r1">>, <<" ", "ws://", "r2", " ">>,
   <<"http://", "r1">>, <<"r9">>, <<"WSS://", "r1">>}
RECURSIVE SeqsUpTo(_, _)
SeqsUpTo(S, n) ==
  IF n = 0 THEN {<<>>}
  ELSE SeqsUpTo(S, n - 1) \cup {Append(q, x) : q \in SeqsUpTo(S, n - 1), x \in S}

\* parseRelayUrls is called with an array, with a string (split(",") of a
\* string has at least one piece) or with undefined.
InitParse ==
  /\ InitFrom(<<>>) /\ QueryIdle /\ MissingIdle /\ OrphansIdle /\ CleanupIdle /\ DeployIdle
  /\ DeleteOrphansIdle
  /\ pInput \in {ArrayValue(v) : v \in SeqsUpTo(Pieces, MaxPieces - 1)}
               \cup {StringValue(v) : v \in SeqsUpTo(Pieces, MaxPieces) \ {<<>>}}
               \cup {UndefinedValue}
  /\ pResult = <<>>
  /\ pPc = "called"

ParseRelayUrls ==
  /\ pPc = "called"
  /\ pResult' = parseRelayUrls(pInput)
  /\ pPc' = "returned"
  /\ UNCHANGED <<pInput, commandVars, cleanupVars, deployVars, deleteOrphansVars>>

NextParse == ParseRelayUrls
SpecParse == InitParse /\ [][NextParse]_vars

\* ------------------------------------------------------- commands/cleanup.mjs
\* The most events the relays hold together when cleanup is started.
MaxKept == 3

\* What parseArguments returns, as far as the modes use it: --version V,
\* --orphans and --dry-run.
CleanupArgs ==
  {[targetVersion |-> v, orphansOnly |-> o, dryRun |-> d] :
     v \in {NoVersion, "1.0", "2.0"}, o \in BOOLEAN, d \in BOOLEAN}

\* main: if (targetVersion) ... else if (orphansOnly) ... else ...
CleanupMode(args) ==
  IF args.targetVersion # NoVersion THEN "version"
  ELSE IF args.orphansOnly THEN "orphans" ELSE "all"

\* The events of one kind the relays return, relay after relay, each id once.
QueriedOfKind(held, kind) ==
  Unique(Concat([i \in DOMAIN Relays |-> OfKind(held[Relays[i]], kind)]))

\* performFullCleanup: every event of every relay, for every relay
FullTargets(held) ==
  LET uniqueEvents == Unique(Concat([i \in DOMAIN Relays |-> held[Relays[i]]]))
  IN IF uniqueEvents = <<>> THEN <<>>
     ELSE [i \in DOMAIN Relays |-> [relay |-> Relays[i], eventIds |-> IdSeq(uniqueEvents)]]

\* performOrphanCleanup: orphanEventIds, an entry for each relay with orphans
OrphanIdsOf(events) ==
  LET orphans == analyzeOrphans(events)
  IN IdSeq(orphans.assets) \o IdSeq(orphans.manifests) \o IdSeq(orphans.indexes)
OrphanTargets(held) ==
  LET all == [i \in DOMAIN Relays |->
                [relay |-> Relays[i], eventIds |-> OrphanIdsOf(held[Relays[i]])]]
  IN SelectSeq(all, LAMBDA t : t.eventIds # <<>>)

\* performVersionCleanup: the first site-index whose JSON content has the version
TargetSiteIndex(held, version) ==
  LET hit == SelectSeq(QueriedOfKind(held, SITE_INDEX),
                       LAMBDA e : e.content.json /\ e.content.version = version)
  IN IF hit = <<>> THEN NoEvent ELSE hit[1]

\* aTag && aTag.includes(`:${dTag}`), the "a" tag given as its parts
ATagIncludes(ep, dTag) ==
  /\ HasATag(ep)
  /\ LET aTag == TagsNamed(ep, "a")[1][2]
     IN \E i \in 2..Len(aTag) : aTag[i] = dTag

\* manifestContent.assets of JSON.parse(manifest.content), the ids of its
\* entries; nothing when the content is not JSON or has no assets
ContentAssetIds(manifest) ==
  IF manifest.content.json /\ "assets" \in DOMAIN manifest.content
  THEN manifest.content.assets ELSE <<>>

VersionEvents(held, version) ==
  LET targetSiteIndex == TargetSiteIndex(held, version)
      dTag == DTagOf(targetSiteIndex)
      entrypoints == SelectSeq(QueriedOfKind(held, ENTRYPOINT),
                               LAMBDA ep : ATagIncludes(ep, dTag))
      manifestIds == RouteIds(targetSiteIndex)
      manifestEvents == SelectSeq(QueriedOfKind(held, MANIFEST),
                                  LAMBDA e : getEventId(e) \in Range(manifestIds))
      assetIds == UNION {Range(ContentAssetIds(manifestEvents[i])) :
                           i \in DOMAIN manifestEvents}
      assetEvents == SelectSeq(QueriedOfKind(held, ASSET),
                               LAMBDA e : getEventId(e) \in assetIds)
  IN <<targetSiteIndex>>
       \o (IF entrypoints = <<>> THEN <<>> ELSE <<entrypoints[1]>>)
       \o manifestEvents \o assetEvents
VersionTargets(held, version) ==
  [i \in DOMAIN Relays |->
     [relay |-> Relays[i], eventIds |-> IdSeq(VersionEvents(held, version))]]

\* The deletions a mode would request: the relays in the order of its loop,
\* each with the ids handed to deleteEventsFromRelay.
CleanupTargets(args, held) ==
  IF CleanupMode(args) = "version" THEN VersionTargets(held, args.targetVersion)
  ELSE IF CleanupMode(args) = "orphans" THEN OrphanTargets(held)
  ELSE FullTargets(held)

\* cleanup is started with its arguments parsed, the relays holding events of
\* the first catalogue.
InitCleanup ==
  /\ InitFrom(<<>>) /\ QueryIdle /\ MissingIdle /\ OrphansIdle /\ ParseIdle /\ DeployIdle
  /\ DeleteOrphansIdle
  /\ \E held \in [RelaySet -> SUBSET (DOMAIN Catalogue)] :
       /\ Cardinality({<<r, i>> \in RelaySet \X DOMAIN Catalogue : i \in held[r]}) <= MaxKept
       /\ cStore = [r \in RelaySet |-> HeldFrom(Catalogue, RelayIndex(r), held[r])]
  /\ cArgs \in CleanupArgs
  /\ cTargets = <<>>
  /\ cAnswers = <<>>
  /\ cSent = [r \in RelaySet |-> <<>>]
  /\ cK = 1
  /\ cPc = "start"

\* if (dryRun) { ...; return; }
StopsBeforePrompt(dryRun) == dryRun

\* The mode queries the relays, shows what it would delete and returns when
\* there is nothing, or when --dry-run is given; --version throws when no
\* site-index has the version.
Locate ==
  /\ cPc = "start"
  /\ IF CleanupMode(cArgs) = "version"
        /\ TargetSiteIndex(cStore, cArgs.targetVersion) = NoEvent
     THEN cPc' = "error" /\ UNCHANGED cTargets
     ELSE /\ cTargets' = CleanupTargets(cArgs, cStore)
          /\ cPc' = IF cTargets' = <<>> THEN "nothing"
                    ELSE IF StopsBeforePrompt(cArgs.dryRun) THEN "dry"
                    ELSE "prompt"
  /\ UNCHANGED <<cStore, cArgs, cAnswers, cSent, cK, commandVars, parseVars, deployVars, deleteOrphansVars>>

\* What the operator may type at the prompt of cleanup.
DeleteAnswers ==
  {<<" ", "DELETE", " ">>, <<"delete">>, <<>>, <<"DELETE", " ", "all">>}

\* answer.trim() === "DELETE"
confirmDeletionMutAnyCase(answer) == Trim(answer) \in {<<"DELETE">>, <<"delete">>}
confirmDeletion(answer) == Trim(answer) = <<"DELETE">>

ConfirmDeletion ==
  /\ cPc = "prompt"
  /\ \E answer \in DeleteAnswers :
       /\ cAnswers' = Append(cAnswers, answer)
       /\ cPc' = IF confirmDeletion(answer) THEN "deleting" ELSE "cancelled"
  /\ UNCHANGED <<cStore, cArgs, cTargets, cSent, cK, commandVars, parseVars, deployVars, deleteOrphansVars>>

\* deleteEventsFromRelay: one deletion event for every batch of the ids
RECURSIVE Batches(_)
Batches(eventIds) ==
  IF Len(eventIds) <= BatchSize THEN <<eventIds>>
  ELSE <<SubSeq(eventIds, 1, BatchSize)>>
         \o Batches(SubSeq(eventIds, BatchSize + 1, Len(eventIds)))

\* The relay after the deletion events it accepted, one for each batch
\* (createDeletionEvent(batch, "Cleanup", skHex)); it honours them and
\* removes the events their "e" tags name.
RECURSIVE AfterBatches(_, _, _)
AfterBatches(events, batches, oks) ==
  IF batches = <<>> THEN events
  ELSE AfterBatches(IF Head(oks)
                    THEN SelectSeq(events, LAMBDA e : e.id \notin Range(Head(batches)))
                    ELSE events,
                    Tail(batches), Tail(oks))

\* One round of the deletion loop: deleteEventsFromRelay(relayUrl, eventIds).
\* The connection may fail, and the relay may refuse a deletion event.
DeleteFromRelay ==
  /\ cPc = "deleting"
  /\ LET target == cTargets[cK]
         batches == Batches(target.eventIds)
     IN \E connected \in BOOLEAN, oks \in [DOMAIN batches -> BOOLEAN] :
          /\ cSent' = [cSent EXCEPT ![target.relay] =
                         IF connected
                         THEN @ \o [i \in DOMAIN batches |->
                                      [eventIds |-> batches[i], ok |-> oks[i]]]
                         ELSE @]
          /\ cStore' = [cStore EXCEPT ![target.relay] =
                          IF connected THEN AfterBatches(@, batches, oks) ELSE @]
  /\ cK' = cK + 1
  /\ cPc' = IF cK = Len(cTargets) THEN "done" ELSE "deleting"
  /\ UNCHANGED <<cArgs, cTargets, cAnswers, commandVars, parseVars, deployVars, deleteOrphansVars>>

NextCleanup == Locate \/ ConfirmDeletion \/ DeleteFromRelay
SpecCleanup == InitCleanup /\ [][NextCleanup]_vars

\* ------------------------------------------------------------------- deploy
\* The most events a run publishes and the most publications the relays
\* refuse in a run.
MaxRun == 3
MaxRefused == 4
\* The events a run may have to publish, in the order deploy publishes them:
\* the assets, the manifests, the site-index and the entrypoint that are new.
RunCatalogue == <<A1, M1, S1, E1>>

\* deploy has loaded its configuration and its site: the events it will
\* publish are the new ones, in their order.
InitDeploy ==
  /\ InitFrom(<<>>) /\ QueryIdle /\ MissingIdle /\ OrphansIdle /\ ParseIdle /\ CleanupIdle
  /\ DeleteOrphansIdle
  /\ \E S \in SUBSET (DOMAIN RunCatalogue) :
       /\ S # {} /\ Cardinality(S) <= MaxRun
       /\ dRun = IdSeq(HeldFrom(RunCatalogue, 1, S))
  /\ dConns = [r \in RelaySet |-> FALSE]
  /\ dE = 1
  /\ dAttempt = 0
  /\ dResults = <<>>
  /\ dSends = [r \in RelaySet |-> <<>>]
  /\ dStats = <<>>
  /\ dPublishLog = [r \in RelaySet |-> <<>>]
  /\ dDeleted = [r \in RelaySet |-> <<>>]
  /\ dHeld = [r \in RelaySet |-> <<>>]
  /\ dRefused = 0
  /\ dPc = "connect"

\* connectRelays, and the relayStats and publishLog main makes of its result
ConnectRelays ==
  /\ dPc = "connect"
  /\ \E connected \in [RelaySet -> BOOLEAN] :
       /\ dConns' = connected
       /\ dStats' = [r \in RelaySet |->
                       [connected |-> connected[r], published |-> 0, failed |-> 0,
                        rolledBack |-> FALSE]]
  /\ dPc' = "publish"
  /\ UNCHANGED <<dRun, dE, dAttempt, dResults, dSends, dPublishLog, dDeleted, dHeld,
                 dRefused, commandVars, parseVars, cleanupVars, deleteOrphansVars>>

\* conns.filter((c) => c.connected), in the order of the relay list
ConnectedRelays == SelectSeq(Relays, LAMBDA r : dConns[r])

\* relaysToTry, as indexes of connectedRelays: all on the first attempt, then
\* those whose result is not a success
RelaysToTryMutAll(connected, results, attempt) == [i \in DOMAIN connected |-> i]
RelaysToTry(connected, results, attempt) ==
  IF attempt = 0 THEN [i \in DOMAIN connected |-> i]
  ELSE LET all == [i \in DOMAIN connected |-> i]
       IN SelectSeq(all, LAMBDA i : results[i] # "success")

\* The update of results after a retry: the results that are no success take
\* the results of the attempt in their order.
RECURSIVE MergeResults(_, _)
MergeResults(results, attemptResults) ==
  IF results = <<>> THEN <<>>
  ELSE IF Head(results) # "success" /\ attemptResults # <<>>
  THEN <<Head(attemptResults)>> \o MergeResults(Tail(results), Tail(attemptResults))
  ELSE <<Head(results)>> \o MergeResults(Tail(results), attemptResults)

\* publishToRelays throws at once when no relay is connected.
NoConnectedRelay ==
  /\ dPc = "publish" /\ ConnectedRelays = <<>>
  /\ dPc' = "threw"
  /\ UNCHANGED <<dRun, dConns, dE, dAttempt, dResults, dSends, dStats, dPublishLog,
                 dDeleted, dHeld, dRefused, commandVars, parseVars, cleanupVars, deleteOrphansVars>>

\* The loop over the attempts is over: after the last retry, or when a retry
\* has no relay to try.
AttemptsOver ==
  \/ dAttempt > RetryCount
  \/ RelaysToTry(ConnectedRelays, dResults, dAttempt) = <<>>

\* One attempt of publishToRelays for the event ev = dRun[dE]: the event is
\* sent to every relay of relaysToTry, which accepts and stores it or refuses.
PublishAttempt ==
  /\ dPc = "publish" /\ ConnectedRelays # <<>> /\ ~AttemptsOver
  /\ LET ev == dRun[dE]
         relaysToTry == RelaysToTry(ConnectedRelays, dResults, dAttempt)
         urls == [j \in DOMAIN relaysToTry |-> ConnectedRelays[relaysToTry[j]]]
     IN \E oks \in [DOMAIN relaysToTry -> BOOLEAN] :
          LET refused == Cardinality({j \in DOMAIN oks : ~oks[j]})
              attemptResults == [j \in DOMAIN oks |-> IF oks[j] THEN "success" ELSE "failed"]
              Sent(r) == {j \in DOMAIN urls : urls[j] = r}
          IN /\ dRefused + refused <= MaxRefused
             /\ dRefused' = dRefused + refused
             /\ dSends' = [r \in RelaySet |->
                             dSends[r] \o [j \in 1..Cardinality(Sent(r)) |->
                                             [event |-> ev, attempt |-> dAttempt,
                                              ok |-> \A i \in Sent(r) : oks[i]]]]
             /\ dHeld' = [r \in RelaySet |->
                            IF \E j \in Sent(r) : oks[j]
                            THEN AddUnique(dHeld[r], ev) ELSE dHeld[r]]
             /\ dResults' = IF dAttempt = 0 THEN attemptResults
                            ELSE MergeResults(dResults, attemptResults)
  /\ dAttempt' = dAttempt + 1
  /\ UNCHANGED <<dRun, dConns, dE, dStats, dPublishLog, dDeleted, dPc,
                 commandVars, parseVars, cleanupVars, deleteOrphansVars>>

\* After the attempts: the counters and the publish log of every connected
\* relay, then the error when no relay accepted the event; main goes on with
\* the next event, and with the rollback after the last.
Tally ==
  /\ dPc = "publish" /\ ConnectedRelays # <<>> /\ AttemptsOver
  /\ LET Succeeded(r) ==
           \E idx \in DOMAIN ConnectedRelays :
             ConnectedRelays[idx] = r /\ dResults[idx] = "success"
     IN /\ dStats' = [r \in RelaySet |->
                        IF ~dConns[r] THEN dStats[r]
                        ELSE IF Succeeded(r)
                        THEN [dStats[r] EXCEPT !.published = @ + 1]
                        ELSE [dStats[r] EXCEPT !.failed = @ + 1]]
        /\ dPublishLog' = [r \in RelaySet |->
                             IF dConns[r] /\ Succeeded(r)
                             THEN Append(dPublishLog[r], dRun[dE]) ELSE dPublishLog[r]]
        /\ IF \A r \in RelaySet : ~(dConns[r] /\ Succeeded(r))
           THEN dPc' = "threw" /\ UNCHANGED <<dE, dAttempt, dResults>>
           ELSE /\ dE' = dE + 1
                /\ dAttempt' = 0
                /\ dResults' = <<>>
                /\ dPc' = IF dE = Len(dRun) THEN "rollback" ELSE "publish"
  /\ UNCHANGED <<dRun, dConns, dSends, dDeleted, dHeld, dRefused,
                 commandVars, parseVars, cleanupVars, deleteOrphansVars>>

\* Object.entries(relayStats).filter(([url, stats]) => stats.connected &&
\* stats.failed > 0), in the order of the relay list
FailedRelays == SelectSeq(Relays, LAMBDA r : dStats[r].connected /\ dStats[r].failed > 0)

\* The relay after the deletion events of a rollback it accepted, one for
\* each event; it honours them.
RolledBack(held, publishedEvents, oks) ==
  SelectSeq(held, LAMBDA id :
    ~\E j \in DOMAIN publishedEvents : publishedEvents[j] = id /\ oks[j])

\* The rollback of main: a deletion event for every event of the publish log
\* of every relay with a failure; the relay accepts it or refuses.
Rollback ==
  /\ dPc = "rollback"
  /\ \E oks \in [RelaySet -> [1..MaxRun + 1 -> BOOLEAN]] :
       /\ \A r \in RelaySet, j \in 1..MaxRun + 1 :
            (r \notin Range(FailedRelays) \/ j > Len(dPublishLog[r])) => oks[r][j]
       /\ dDeleted' = [r \in RelaySet |->
                         IF r \in Range(FailedRelays)
                         THEN dDeleted[r] \o [j \in DOMAIN dPublishLog[r] |->
                                                [event |-> dPublishLog[r][j], ok |-> oks[r][j]]]
                         ELSE dDeleted[r]]
       /\ dHeld' = [r \in RelaySet |->
                      IF r \in Range(FailedRelays)
                      THEN RolledBack(dHeld[r], dPublishLog[r], oks[r]) ELSE dHeld[r]]
  /\ dStats' = [r \in RelaySet |->
                  IF r \in Range(FailedRelays) /\ dPublishLog[r] # <<>>
                  THEN [dStats[r] EXCEPT !.published = 0, !.failed = 0, !.rolledBack = TRUE]
                  ELSE dStats[r]]
  /\ dPc' = "done"
  /\ UNCHANGED <<dRun, dConns, dE, dAttempt, dResults, dSends, dPublishLog, dRefused,
                 commandVars, parseVars, cleanupVars, deleteOrphansVars>>

NextDeploy == ConnectRelays \/ NoConnectedRelay \/ PublishAttempt \/ Tally \/ Rollback
SpecDeploy == InitDeploy /\ [][NextDeploy]_vars

\* ------------------------------------------- delete-orphans: analyzeOrphans
\* The analysis of the delete-orphans command.  The site-indexes the
\* entrypoints name are found as in cleanup-utils; the manifests are the
\* routes of the JSON content of the referenced site-indexes, of all when none
\* is referenced; the assets are the "e" tags of the referenced manifests, of
\* all when none is referenced.
RoutedManifests(events) ==
  UNION {Range(RouteIds(index)) : index \in
           {e \in Range(OfKind(events, SITE_INDEX)) :
              /\ e.content.json
              /\ \/ getEventId(e) \in ReferencedIndexes(events)
                 \/ ReferencedIndexes(events) = {}}}

TaggedAssets(events) ==
  UNION {Range(ETags(manifest)) : manifest \in
           {e \in Range(OfKind(events, MANIFEST)) :
              \/ getEventId(e) \in RoutedManifests(events)
              \/ RoutedManifests(events) = {}}}

orphansOfDeleteOrphans(events) ==
  [assets |-> SelectSeq(OfKind(events, ASSET),
                        LAMBDA e : getEventId(e) \notin TaggedAssets(events)),
   manifests |-> SelectSeq(OfKind(events, MANIFEST),
                           LAMBDA e : getEventId(e) \notin RoutedManifests(events)),
   indexes |-> SelectSeq(OfKind(events, SITE_INDEX),
                         LAMBDA e : getEventId(e) \notin ReferencedIndexes(events))]

\* displayOrphanReport: the ids to delete on the relay
ReportedIds(orphans) ==
  IdSeq(orphans.assets) \o IdSeq(orphans.manifests) \o IdSeq(orphans.indexes)

\* delete-orphans has queried a relay that holds events of the first
\* catalogue, in either order.
InitDeleteOrphans ==
  /\ InitFrom(<<>>) /\ QueryIdle /\ MissingIdle /\ OrphansIdle
  /\ ParseIdle /\ CleanupIdle /\ DeployIdle
  /\ \E S \in SUBSET (DOMAIN Catalogue), n \in DOMAIN Relays :
       xEvents = HeldFrom(Catalogue, n, S)
  /\ xOrphans = NoOrphans
  /\ xPasses = 0
  /\ xPc = "queried"

\* const analysis = analyzeOrphans(events)
AnalyzeRelay ==
  /\ xPc = "queried"
  /\ xOrphans' = orphansOfDeleteOrphans(xEvents)
  /\ xPc' = "analyzed"
  /\ UNCHANGED <<xEvents, xPasses, commandVars, parseVars, cleanupVars, deployVars>>

\* Every event the analysis reported is removed from the relay, and the relay
\* is queried again.
RemoveReported ==
  /\ xPc = "analyzed"
  /\ ReportedIds(xOrphans) # <<>>
  /\ xEvents' = SelectSeq(xEvents, LAMBDA e : getEventId(e) \notin Range(ReportedIds(xOrphans)))
  /\ xPasses' = xPasses + 1
  /\ xPc' = "queried"
  /\ UNCHANGED <<xOrphans, commandVars, parseVars, cleanupVars, deployVars>>

NextDeleteOrphans == AnalyzeRelay \/ RemoveReported
SpecDeleteOrphans == InitDeleteOrphans /\ [][NextDeleteOrphans]_vars

\* ================================================================== claims
\* What a list of events holds, stated on sets.
HoldsAsset(events, id) == \E e \in Range(events) : e.kind = ASSET /\ e.id = id
HoldsManifest(events, id) == \E e \in Range(events) : e.kind = MANIFEST /\ e.id = id
SiteIndexesOf(events, version) ==
  {e \in Range(events) : e.kind = SITE_INDEX /\ e.content.json /\ VersionOf(e) = version}

\* The list holds the transitive closure of the version: a site-index of it,
\* every manifest of its manifest-id set, every asset those manifests reference.
HoldsClosure(events, versionInfo) ==
  /\ SiteIndexesOf(events, versionInfo.version) # {}
  /\ \A mid \in Range(versionInfo.manifestIds) :
       \E m \in Range(events) :
         /\ m.kind = MANIFEST /\ m.id = mid
         /\ \A aid \in Range(ETags(m)) : HoldsAsset(events, aid)

DelLog(r) == SelectSeq(log[r], LAMBDA x : x.phase = "deleting")
PubLog(r) == SelectSeq(log[r], LAMBDA x : x.phase = "publishing")

\* C1: whenever identifySourceRelays names relay R as the source of version V,
\* R's queried list holds a site-index of V, a manifest for every manifest id of
\* V and an asset for every asset id those manifests reference.
C1_SourceHoldsClosure ==
  \A i \in DOMAIN versionMap :
    sourceRelays[versionMap[i].version] # NoRelay =>
      HoldsClosure(relayEvents[sourceRelays[versionMap[i].version]], versionMap[i])

\* A version has a source while another relay holds it only partially.
C1_Witness ==
  \E i \in DOMAIN versionMap :
    /\ sourceRelays[versionMap[i].version] # NoRelay
    /\ versionCompleteness[versionMap[i].version].partialOn # <<>>

\* An event is scheduled for deletion on a relay: it is in a delete list itself
\* or a deletion event of the delete lists names it.
ScheduledForDeletion(plan, id) ==
  \E d \in Range(Deletions(plan)) :
    \/ d.kind # DELETION /\ d.id = id
    \/ d.kind = DELETION /\ id \in Range(ETags(d))

\* C2: if no relay is complete for version V, V has no source, no site-index of
\* V is in any relay's publish lists, and on every relay every site-index of V
\* it holds is scheduled for deletion.
C2_OrphanDeletedEverywhere ==
  \A i \in DOMAIN versionMap :
    LET v == versionMap[i].version
    IN versionCompleteness[v].completeOn = <<>> =>
         /\ sourceRelays[v] = NoRelay
         /\ \A r \in RelaySet :
              /\ \A e \in Range(Syncs(syncPlan[r])) :
                   ~(e.kind = SITE_INDEX /\ VersionOf(e) = v)
              /\ \A e \in SiteIndexesOf(relayEvents[r], v) :
                   ScheduledForDeletion(syncPlan[r], e.id)

\* C3: everything sent to a relay in its deleting phase is a deletion event
\* (kind 5) whose e-tags name ids held by that relay; no asset, manifest,
\* site-index or entrypoint is itself sent as a deletion.
C3_DeletionsAreTombstones ==
  \A r \in RelaySet : \A i \in DOMAIN DelLog(r) :
    /\ DelLog(r)[i].event.kind = DELETION
    /\ Range(ETags(DelLog(r)[i].event)) \subseteq Ids(relayEvents[r])

\* C4: when the first publication is sent to a relay, every planned deletion of
\* that relay has been sent and its outcome observed, and no deletion follows a
\* publication.
C4_DeletionsBeforePublications ==
  \A r \in RelaySet :
    PubLog(r) # <<>> =>
      /\ [i \in DOMAIN DelLog(r) |-> DelLog(r)[i].event] = Deletions(syncPlan[r])
      /\ \A i \in DOMAIN DelLog(r) : DelLog(r)[i].ok \in BOOLEAN
      /\ log[r] = DelLog(r) \o PubLog(r)

\* A relay was sent two deletions and then a publication.
C4_Witness ==
  \E r \in RelaySet : Len(DelLog(r)) >= 2 /\ PubLog(r) # <<>>

\* The layer of a kind in the content graph.
Layer(kind) ==
  CASE kind = ASSET -> 1 [] kind = MANIFEST -> 2 [] kind = SITE_INDEX -> 3
    [] kind = ENTRYPOINT -> 4 [] OTHER -> 0

\* C5: in the order of the publications sent to one relay, assets precede
\* manifests, manifests precede site-indexes and the entrypoint is last; so a
\* manifest is sent after every asset of the list it references.
C5_BottomUpOrder ==
  \A r \in RelaySet :
    LET P == PubLog(r)
    IN /\ \A i \in DOMAIN P : Layer(P[i].event.kind) \in 1..4
       /\ \A i, j \in DOMAIN P :
            Layer(P[i].event.kind) < Layer(P[j].event.kind) => i < j
       /\ \A i, j \in DOMAIN P :
            P[i].event.kind = ENTRYPOINT /\ j # i => j < i
       /\ \A i, j \in DOMAIN P :
            /\ P[j].event.kind = MANIFEST
            /\ P[i].event.kind = ASSET
            /\ P[i].event.id \in Range(ETags(P[j].event))
            => i < j

\* A relay was sent an asset, a manifest, a site-index and an entrypoint.
C5_Witness ==
  \E r \in RelaySet :
    {PubLog(r)[i].event.kind : i \in DOMAIN PubLog(r)}
      = {ASSET, MANIFEST, SITE_INDEX, ENTRYPOINT}

\* C6: at every point of a relay's publishing phase and after it, a manifest
\* that this run sent and the relay holds has all its referenced assets on the
\* relay, and a site-index that this run sent and the relay holds has all its
\* manifests on the relay.
C6_NoDanglingReference ==
  \A r \in RelaySet : \A i \in DOMAIN PubLog(r) :
    LET e == PubLog(r)[i].event
    IN PubLog(r)[i].ok /\ e.id \in Ids(store[r]) =>
         /\ e.kind = MANIFEST =>
              \A aid \in Range(ETags(e)) : HoldsAsset(store[r], aid)
         /\ e.kind = SITE_INDEX =>
              \A mid \in Range(RouteIds(e)) : HoldsManifest(store[r], mid)

\* C7: after a run in which every deletion and publication was accepted and
\* honoured, analysing the relays again yields an empty plan for every relay.
C7_SecondRunEmpty ==
  pc = "done" /\ faults = 0 =>
    /\ TotalDeletions(Analyze(store).syncPlan) = 0
    /\ TotalSyncs(Analyze(store).syncPlan) = 0

\* C8: no relay's publish lists of versions hold an event whose id the relay's
\* queried list already contains.
C8_NothingRepublished ==
  \A r \in RelaySet :
    \A e \in Range(syncPlan[r].syncAssets \o syncPlan[r].syncManifests
                     \o syncPlan[r].syncSiteIndexes) :
      e.id \notin Ids(relayEvents[r])

AssetIdsOf(versionInfo) ==
  UNION {Range(ETags(m)) : m \in {e \in UNION {Range(relayEvents[r]) : r \in RelaySet} :
                                    e.kind = MANIFEST /\ e.id \in Range(versionInfo.manifestIds)}}

HoldsSomeOf(events, versionInfo) ==
  \/ SiteIndexesOf(events, versionInfo.version) # {}
  \/ \E mid \in Range(versionInfo.manifestIds) : HoldsManifest(events, mid)
  \/ \E aid \in AssetIdsOf(versionInfo) : HoldsAsset(events, aid)

\* C10: a relay holding some but not all events of version V is classified
\* partial and its record lists the manifest ids and the asset ids of V it
\* lacks; a relay is classified missing only when it holds none of V's events.
C10_PartialVersusMissing ==
  \A i \in DOMAIN versionMap : \A r \in RelaySet :
    LET info == versionMap[i]
        c == versionCompleteness[info.version]
        status == relayVersionStatus[r][info.version]
    IN /\ r \in Range(c.missingOn) => ~HoldsSomeOf(relayEvents[r], info)
       /\ HoldsSomeOf(relayEvents[r], info) /\ ~HoldsClosure(relayEvents[r], info) =>
            /\ r \in Range(c.partialOn)
            /\ Range(status.missingManifests) =
                 {mid \in Range(info.manifestIds) : ~HoldsManifest(relayEvents[r], mid)}
            /\ Range(status.missingAssets) =
                 {aid \in AssetIdsOf(info) : ~HoldsAsset(relayEvents[r], aid)}

\* The manifest ids and the asset ids of a version that no other version uses.
OwnManifestIds(info) ==
  {mid \in Range(info.manifestIds) :
     \A j \in DOMAIN versionMap :
       versionMap[j].version # info.version => mid \notin Range(versionMap[j].manifestIds)}
OwnAssetIds(info) ==
  {aid \in AssetIdsOf(info) :
     \A j \in DOMAIN versionMap :
       versionMap[j].version # info.version => aid \notin AssetIdsOf(versionMap[j])}

\* C11: for a version without a source, every relay that holds any event of it
\* (a site-index, or only manifests or assets of it) has deletions scheduled,
\* and they cover a site-index of the version the relay holds and every
\* manifest and asset of it the relay holds that no other version uses.
C11_OrphanClosureDeleted ==
  \A i \in DOMAIN versionMap : \A r \in RelaySet :
    LET info == versionMap[i]
    IN sourceRelays[info.version] = NoRelay /\ HoldsSomeOf(relayEvents[r], info) =>
         /\ Deletions(syncPlan[r]) # <<>>
         /\ SiteIndexesOf(relayEvents[r], info.version) # {} =>
              \E e \in SiteIndexesOf(relayEvents[r], info.version) :
                ScheduledForDeletion(syncPlan[r], e.id)
         /\ \A mid \in OwnManifestIds(info) :
              HoldsManifest(relayEvents[r], mid) => ScheduledForDeletion(syncPlan[r], mid)
         /\ \A aid \in OwnAssetIds(info) :
              HoldsAsset(relayEvents[r], aid) => ScheduledForDeletion(syncPlan[r], aid)

\* The versions that have a site-index under the addressable key.
VersionsOfKey(key) ==
  {versionMap[i].version : i \in {j \in DOMAIN versionMap :
     \E n \in DOMAIN versionMap[j].siteIndexes : versionMap[j].siteIndexes[n].dTag = key}}

\* C12: an entrypoint scheduled for publication to a relay targets the key of a
\* site-index whose version is complete on some relay: the version has a source
\* and none of its site-indexes is scheduled for deletion.
C12_EntrypointTargetComplete ==
  \A r \in RelaySet :
    syncPlan[r].syncNewEntrypoint # NoEvent =>
      \E v \in VersionsOfKey(TargetKeyOf(syncPlan[r].syncNewEntrypoint)) :
        /\ versionCompleteness[v].completeOn # <<>>
        /\ sourceRelays[v] # NoRelay

\* The entrypoints the queried relays hold, and whether a key was found.
AllEntrypoints ==
  UNION {Range(OfKind(relayEvents[r], ENTRYPOINT)) : r \in RelaySet}
HasIntendedKey ==
  /\ entrypointAnalysis.newestEntrypoint # NoEvent
  /\ entrypointAnalysis.targetSiteIndexDTag \notin {NullKey, Undefined, ""}
StaleIds(r) ==
  {e.id : e \in {x \in Range(OfKind(relayEvents[r], ENTRYPOINT)) :
                   TargetKeyOf(x) # entrypointAnalysis.targetSiteIndexDTag}}

\* C13: when the analysis found an intended key, a relay holding entrypoints
\* with another target key has exactly one deletion event for entrypoints in
\* its plan, naming all and only their ids (a relay holding none has no such
\* deletion event); and a relay holding no entrypoint with the intended key has
\* as entrypoint to publish an event some relay holds, unchanged, that is as
\* new as every entrypoint on every relay.
C13_StaleTombstoneAndNewestItself ==
  HasIntendedKey =>
    \A r \in RelaySet :
      LET plan == syncPlan[r]
          held == Range(OfKind(relayEvents[r], ENTRYPOINT))
      IN /\ StaleIds(r) # {} =>
              /\ Len(plan.deleteOldEntrypoints) = 1
              /\ plan.deleteOldEntrypoints[1].kind = DELETION
              /\ Range(ETags(plan.deleteOldEntrypoints[1])) = StaleIds(r)
              /\ Len(ETags(plan.deleteOldEntrypoints[1])) = Cardinality(StaleIds(r))
         /\ StaleIds(r) = {} => plan.deleteOldEntrypoints = <<>>
         /\ (\A e \in held : TargetKeyOf(e) # entrypointAnalysis.targetSiteIndexDTag) =>
              /\ plan.syncNewEntrypoint \in AllEntrypoints
              /\ \A e \in AllEntrypoints :
                   plan.syncNewEntrypoint.created_at >= e.created_at

\* A relay holds two stale entrypoints and none with the intended key: its plan
\* has a deletion event naming both and the newest entrypoint to publish.
C13_Witness ==
  \E r \in RelaySet :
    /\ HasIntendedKey
    /\ Cardinality(StaleIds(r)) = 2
    /\ Len(syncPlan[r].deleteOldEntrypoints) = 1
    /\ syncPlan[r].syncNewEntrypoint # NoEvent

\* C14: after a run in which every query, connection, deletion and publication
\* succeeded and every deletion was honoured, every relay holds the globally
\* newest entrypoint: one entrypoint that is as new as every entrypoint found
\* is held, under its id, by every relay.  Stated for relays whose entrypoints
\* all name a target key.
C14_SamePointerEverywhere ==
  /\ pc = "done" /\ faults = 0 /\ AllEntrypoints # {}
  /\ \A e \in AllEntrypoints : HasATag(e)
  =>
    \E g \in AllEntrypoints :
      /\ \A e \in AllEntrypoints : g.created_at >= e.created_at
      /\ \A r \in RelaySet : g.id \in Ids(OfKind(store[r], ENTRYPOINT))

\* The same per-relay lists visited in the opposite relay order (the chosen
\* event does not carry the relay it came from), and the same relays with
\* every list in the opposite order.
RelaysReordered(events) ==
  [r \in RelaySet |-> events[Relays[Len(Relays) + 1 - RelayIndex(r)]]]
ListsReordered(events) == [r \in RelaySet |-> Reverse(events[r])]

\* C15: the newest entrypoint of the analysis is an entrypoint some relay holds
\* and as new as every entrypoint on every relay; it is the same event when the
\* relays are visited in another order or a relay lists its events in another
\* order; and it is null when no relay holds an entrypoint.
C15_NewestEntrypointOrderFree ==
  LET newest == analyzeEntrypoints(relayEvents).newestEntrypoint
  IN /\ AllEntrypoints = {} => newest = NoEvent
     /\ AllEntrypoints # {} =>
          /\ newest \in AllEntrypoints
          /\ \A e \in AllEntrypoints : newest.created_at >= e.created_at
     /\ analyzeEntrypoints(RelaysReordered(relayEvents)).newestEntrypoint = newest
     /\ analyzeEntrypoints(ListsReordered(relayEvents)).newestEntrypoint = newest

\* buildSyncPlan on the analyzer output of the state, called at a given time.
PlanAt(now) ==
  buildSyncPlan(relayEvents, versionMap, sourceRelays, entrypointAnalysis,
                relayVersionStatus, now)

\* C16 as stated: two calls of buildSyncPlan on the same analyzer output give,
\* for every relay, delete and publish lists with the same event ids in the
\* same order.
C16_SamePlanIds ==
  \A t \in Times : \A r \in RelaySet :
    /\ IdSeq(Deletions(PlanAt(t)[r])) = IdSeq(Deletions(PlanAt(Now)[r]))
    /\ IdSeq(Syncs(PlanAt(t)[r])) = IdSeq(Syncs(PlanAt(Now)[r]))

\* What a delete-list entry removes: the ids a deletion event names, or the
\* event sent in its place.
DeletionTargets(d) == IF d.kind = DELETION THEN ETags(d) ELSE <<d.id>>

\* C16 amended: two calls of buildSyncPlan on the same analyzer output give,
\* for every relay, publish lists with the same event ids in the same order
\* and delete lists whose entries, in the same order, are of the same kinds
\* and remove the same ids; the id of a deletion event is left to the clock.
C16_SamePlanUpToClock ==
  \A t \in Times : \A r \in RelaySet :
    LET d1 == Deletions(PlanAt(Now)[r])
        d2 == Deletions(PlanAt(t)[r])
    IN /\ IdSeq(Syncs(PlanAt(t)[r])) = IdSeq(Syncs(PlanAt(Now)[r]))
       /\ Len(d1) = Len(d2)
       /\ \A i \in DOMAIN d1 :
            /\ d1[i].kind = d2[i].kind
            /\ DeletionTargets(d1[i]) = DeletionTargets(d2[i])

\* A plan with a deletion event for stale entrypoints, an orphaned site-index
\* to delete and an entrypoint to publish.
C16_Witness ==
  \E r \in RelaySet :
    /\ pc = "prompt"
    /\ syncPlan[r].deleteOldEntrypoints # <<>>
    /\ syncPlan[r].syncNewEntrypoint # NoEvent
    /\ \E q \in RelaySet : syncPlan[q].deleteIncompleteSiteIndexes # <<>>

\* The answer is the word SYNC with nothing but blanks around it.
IsSyncPadded(answer) ==
  \E i \in DOMAIN answer :
    answer[i] = "SYNC" /\ \A j \in DOMAIN answer \ {i} : answer[j] = " "
ExecutionStarted ==
  \/ pc \in {"exec", "done"}
  \/ \E r \in RelaySet : log[r] # <<>>
  \/ \E i \in DOMAIN conns : conns[i].stage = "execute"

\* C17: executeSyncPlan runs, and a deletion or publication reaches a relay,
\* only after the prompt was answered with SYNC between optional blanks; after
\* any other answer the run is over with nothing sent to any relay.
C17_ConfirmationGate ==
  /\ ExecutionStarted => Len(answers) = 1 /\ IsSyncPadded(answers[1])
  /\ \A i \in DOMAIN answers :
       ~IsSyncPadded(answers[i]) => pc = "cancelled" /\ ~ExecutionStarted

\* The prompt was answered with SYNC between blanks and an event was sent.
C17_Witness ==
  /\ answers = << <<" ", "SYNC", " ">> >>
  /\ \E r \in RelaySet : log[r] # <<>>

\* A piece of the relay list is a relay URL: after its leading blanks it starts
\* with wss:// or ws://.
IsRelayUrl(piece) ==
  \E j \in DOMAIN piece :
    piece[j] \in {"wss://", "ws://"} /\ \A h \in 1..(j - 1) : piece[h] = " "
BadConfig ==
  \/ ~config.skHex.set
  \/ ~config.relayList.set \/ config.relayList.value = <<>>
  \/ \A i \in DOMAIN config.relayList.value : ~IsRelayUrl(config.relayList.value[i])
NoRelayTouched ==
  /\ conns = <<>>
  /\ \A r \in RelaySet : log[r] = <<>> /\ relayEvents[r] = <<>>

\* C18: once the environment is read, a missing private key, a relay list that
\* is unset or empty, or a relay list without any valid relay URL ends sync()
\* with a configuration error, and no relay was connected to, queried or sent
\* anything.
C18_ConfigErrorBeforeNetwork ==
  /\ pc # "config" /\ BadConfig => pc = "configError"
  /\ pc = "configError" => NoRelayTouched

\* The key and the relay list are set, and no piece of the list is a relay URL.
C18_Witness ==
  /\ pc = "configError"
  /\ config.skHex.set
  /\ config.relayList.set /\ config.relayList.value # <<>>

\* The connection attempts of executeSyncPlan to a relay, and the relays it
\* failed to connect to.
ExecConns(r) ==
  SelectSeq(conns, LAMBDA c : c.stage = "execute" /\ c.relay = r)
ConnectFailed(r) == \E i \in DOMAIN ExecConns(r) : ~ExecConns(r)[i].ok
Planned(r) == Len(Deletions(syncPlan[r])) + Len(Syncs(syncPlan[r]))
Rejected(r) == Len(SelectSeq(log[r], LAMBDA x : ~x.ok))
\* What the first n relays account for in totalFailed.
RECURSIVE FailedUpTo(_)
FailedUpTo(n) ==
  IF n = 0 THEN 0
  ELSE FailedUpTo(n - 1)
         + (IF ConnectFailed(Relays[n]) THEN Planned(Relays[n]) ELSE Rejected(Relays[n]))

\* C19: a relay executeSyncPlan failed to connect to was sent no event, counts
\* in totalFailed for exactly its planned deletions plus publications (the
\* other relays for their rejected events), was tried once, and the loop has
\* moved past it; at the end every relay with a plan was tried exactly once.
C19_FailedConnectSkipsRelay ==
  /\ \A r \in RelaySet :
       /\ Len(ExecConns(r)) <= 1
       /\ ConnectFailed(r) => log[r] = <<>> /\ ri > RelayIndex(r)
       /\ pc = "done" /\ Planned(r) > 0 => Len(ExecConns(r)) = 1
  /\ stats.totalFailed = FailedUpTo(Len(Relays))

\* The connection to the first relay failed, with two or more events planned
\* for it, and the second relay was sent an event.
C19_Witness ==
  /\ ConnectFailed(Relays[1])
  /\ Planned(Relays[1]) >= 2
  /\ log[Relays[2]] # <<>>

\* How often an event id occurs in a list of events.
Occurrences(events, id) == Len(SelectSeq(events, LAMBDA e : e.id = id))
Attempted(r, stage) ==
  LET entries == SelectSeq(log[r], LAMBDA x : x.phase = stage)
  IN [i \in DOMAIN entries |-> entries[i].event]
\* executeSyncPlan connected to the relay and has closed it again.
Finished(r) ==
  /\ \E i \in DOMAIN ExecConns(r) : ExecConns(r)[i].ok
  /\ ri > RelayIndex(r)

\* C20: on a relay that was connected to, no event is attempted more often
\* than it is planned, and when the relay is closed every planned deletion and
\* every planned publication was attempted exactly as often as it is planned,
\* whichever attempts were rejected.
C20_EveryEventAttemptedOnce ==
  \A r \in RelaySet :
    LET ids == Ids(Deletions(syncPlan[r])) \cup Ids(Syncs(syncPlan[r]))
                 \cup {log[r][i].event.id : i \in DOMAIN log[r]}
    IN \A id \in ids :
         /\ Occurrences(Attempted(r, "deleting"), id)
              <= Occurrences(Deletions(syncPlan[r]), id)
         /\ Occurrences(Attempted(r, "publishing"), id)
              <= Occurrences(Syncs(syncPlan[r]), id)
         /\ Finished(r) =>
              /\ Occurrences(Attempted(r, "deleting"), id)
                   = Occurrences(Deletions(syncPlan[r]), id)
              /\ Occurrences(Attempted(r, "publishing"), id)
                   = Occurrences(Syncs(syncPlan[r]), id)

\* A relay was closed after a rejected deletion that was followed by another
\* deletion and by a publication.
C20_Witness ==
  \E r \in RelaySet :
    /\ Finished(r)
    /\ \E i, j, n \in DOMAIN log[r] :
         /\ i < j /\ j < n
         /\ log[r][i].phase = "deleting" /\ ~log[r][i].ok
         /\ log[r][j].phase = "deleting"
         /\ log[r][n].phase = "publishing"

\* The relays whose query failed during the scan.
QueryFailed(r) ==
  \E i \in DOMAIN conns :
    conns[i].stage = "query" /\ conns[i].relay = r /\ ~conns[i].ok

\* C21: a relay that could not be connected to or queried during the scan
\* does not end the run; it counts as holding no event: every version is
\* missing on it, and for every version with a source its publish lists hold a
\* site-index of the version, every manifest of the version and every asset
\* those manifests reference.
C21_UnreachableRelayIsEmpty ==
  \A r \in RelaySet :
    QueryFailed(r) =>
      /\ pc \in {"exit", "insync", "prompt", "cancelled", "exec", "done"}
      /\ relayEvents[r] = <<>>
      /\ \A i \in DOMAIN versionMap :
           LET info == versionMap[i]
               v == info.version
           IN /\ r \in Range(versionCompleteness[v].missingOn)
              /\ sourceRelays[v] # NoRelay =>
                   /\ \E e \in Range(syncPlan[r].syncSiteIndexes) :
                        e.kind = SITE_INDEX /\ VersionOf(e) = v
                   /\ Range(info.manifestIds) \subseteq Ids(syncPlan[r].syncManifests)
                   /\ AssetIdsOf(info) \subseteq Ids(syncPlan[r].syncAssets)

\* The query of a relay that holds events failed while another relay is the
\* source of a version.
C21_Witness ==
  \E r \in RelaySet :
    /\ QueryFailed(r)
    /\ store[r] # <<>>
    /\ \E i \in DOMAIN versionMap : sourceRelays[versionMap[i].version] # NoRelay
    /\ syncPlan[r].syncAssets # <<>>

\* C22: once the plan is displayed, a relay whose plan holds no deletion and no
\* publication is reported complete, and executeSyncPlan never connects to it
\* and sends it neither a deletion nor a publication.
C22_EmptyPlanRelayUntouched ==
  \A r \in RelaySet :
    (pc \in {"insync", "prompt", "cancelled", "exec", "done"} /\ Planned(r) = 0) =>
      /\ report[r] = "Complete"
      /\ ExecConns(r) = <<>>
      /\ log[r] = <<>>
\* executeSyncPlan has gone past a relay with an empty plan and has sent events
\* to another relay.
C22_Witness ==
  /\ pc = "done"
  /\ \E r, q \in RelaySet :
       /\ Planned(r) = 0
       /\ report[q] = "Needs attention"
       /\ log[q] # <<>>

\* C23: every deletion and publication attempt of executeSyncPlan has a bounded
\* wait, so the run is never left blocked on a publish that the relay does not
\* answer.
C23_EveryAttemptBounded == pc # "blocked"

\* C24: both queryEvents have returned once end-of-stored-events has arrived
\* or the timer has fired, with the events received up to then, and the list
\* they returned stays as it was returned: a later event is never added to it.
C24_ReturnedListFinal ==
  /\ (qEose \/ qTimer = "fired") => qPhase = "resolved"
  /\ qPhase = "resolved" => qEvents = qReturned

\* The relays analyzeVersionCompleteness reports complete for the version.
CompleteOn(completeness, version) ==
  IF version \in DOMAIN completeness THEN Range(completeness[version].completeOn) ELSE {}
\* The analysis of steps B and C after one more event was added to the relay's list.
CompletenessWith(r, e) ==
  LET more == [relayEvents EXCEPT ![r] = Append(@, e)]
  IN analyzeVersionCompleteness(more, analyzeSiteIndexVersions(more)).versionCompleteness

\* C25: a relay that is complete for a version is still reported complete for
\* it when one more event is added to the relay's list and the analysis is run
\* again, the other relays unchanged.
C25_CompletenessMonotonic ==
  pc \in {"insync", "prompt"} =>
    \A r \in RelaySet, v \in DOMAIN versionCompleteness :
      r \in CompleteOn(versionCompleteness, v) =>
        \A e \in Range(Catalogue) \ Range(relayEvents[r]) :
          r \in CompleteOn(CompletenessWith(r, e), v)

\* C26: site-indexes whose JSON content has no version are not merged: two of
\* them that stand in the same entry of the version table have the same
\* addressable key.
C26_UnversionedKeptApart ==
  \A i \in DOMAIN versionMap :
    \A a, b \in Range(versionMap[i].siteIndexes) :
      (a.event.content.version = "" /\ b.event.content.version = "") => a.dTag = b.dTag

\* The relay lists without the site-indexes whose content is not JSON.
WithoutUnparsable(events) ==
  [r \in RelaySet |->
     SelectSeq(events[r], LAMBDA e : ~(e.kind = SITE_INDEX /\ ~e.content.json))]
\* The asset ids the manifests of the version that the relay holds name.
NamedAssetIds(r, info) ==
  UNION {Range(ETags(m)) : m \in {e \in Range(relayEvents[r]) :
                                   e.kind = MANIFEST /\ e.id \in Range(info.manifestIds)}}
Malformed(e) ==
  \/ e.kind = SITE_INDEX /\ (~e.content.json \/ e.content.routes = <<>>)
  \/ e.kind = MANIFEST /\ ETags(e) = <<>>
  \/ e.kind = ENTRYPOINT /\ ~HasATag(e)

\* C27: the analysis ends with a plan whatever the relays hold, and malformed
\* events add no reference: a site-index that is not JSON is in no entry of
\* the version table and the plan is the one of the lists without it, the
\* manifests required by an entry are the routes of its site-indexes, the
\* assets required on a relay are those its manifests name, and the target key
\* is null or the key of an entrypoint that has an address tag.
C27_MalformedEventsAddNothing ==
  pc \in {"exit", "insync", "prompt"} =>
    /\ \A i \in DOMAIN versionMap :
         /\ \A si \in Range(versionMap[i].siteIndexes) : si.event.content.json
         /\ Range(versionMap[i].manifestIds) =
              UNION {Range(RouteIds(si.event)) : si \in Range(versionMap[i].siteIndexes)}
         /\ \A r \in RelaySet :
              relayVersionStatus[r][versionMap[i].version].hasSiteIndex =>
                relayVersionStatus[r][versionMap[i].version].assets.required =
                  Cardinality(NamedAssetIds(r, versionMap[i]))
    /\ entrypointAnalysis.targetSiteIndexDTag \in
         {NullKey} \cup {TargetKeyOf(e) : e \in {x \in AllEntrypoints : HasATag(x)}}
    /\ syncPlan = Analyze(WithoutUnparsable(relayEvents)).syncPlan
\* A relay holds malformed events of three kinds and the plan publishes a
\* well-formed event to the other relay.
C27_Witness ==
  /\ pc = "prompt"
  /\ \E r, q \in RelaySet :
       /\ \E e \in Range(relayEvents[r]) : e.kind = SITE_INDEX /\ ~e.content.json
       /\ \E e \in Range(relayEvents[r]) : e.kind = ENTRYPOINT /\ ~HasATag(e)
       /\ \E e \in Range(relayEvents[r]) : e.kind = MANIFEST /\ ETags(e) = <<>>
       /\ \E e \in Range(Syncs(syncPlan[q])) : ~Malformed(e)

\* Every relay was found to hold the same set of events, every version of the
\* table is complete on every relay and the entrypoints all target one key.
MirroredAndComplete ==
  /\ \A r, q \in RelaySet : Range(relayEvents[r]) = Range(relayEvents[q])
  /\ \A v \in DOMAIN versionCompleteness :
       Range(versionCompleteness[v].completeOn) = RelaySet
  /\ \A e, f \in AllEntrypoints : HasATag(e) /\ TargetKeyOf(e) = TargetKeyOf(f)
EmptyPlans == \A r \in RelaySet : Deletions(syncPlan[r]) = <<>> /\ Syncs(syncPlan[r]) = <<>>

\* C28: when the relays hold the same events, every version is complete and
\* the entrypoints target one key, the plan of every relay is empty and sync
\* reports the relays in sync, without a prompt and without executing.
C28_MirroredRelaysInSync ==
  (pc \notin {"config", "configError", "start"} /\ MirroredAndComplete) =>
    EmptyPlans /\ pc = "insync" /\ answers = <<>> /\ conns = SelectSeq(conns, LAMBDA c : c.stage = "query")
\* C28 for relays that hold at least one version: without a version sync
\* exits with "No versions found" instead.
C28_MirroredVersionsInSync ==
  (pc \notin {"config", "configError", "start"} /\ MirroredAndComplete /\ versionMap # <<>>) =>
    EmptyPlans /\ pc = "insync" /\ answers = <<>> /\ conns = SelectSeq(conns, LAMBDA c : c.stage = "query")
\* The relays hold a complete version and an entrypoint, in different orders.
C28_Witness ==
  /\ pc = "insync"
  /\ MirroredAndComplete
  /\ AllEntrypoints # {}
  /\ relayEvents["r1"] # relayEvents["r2"]

\* What the relays of commands/sync.mjs hold between them.
HeldSomewhere == UNION {Ids(mStore[r]) : r \in RelaySet}

\* C29: findMissingEvents gives every relay exactly the events that some relay
\* holds and it does not, and after a confirmed run without a failure every
\* relay holds the same events.
C29_MissingEventsMakeRelaysEqual ==
  /\ mPc \in {"insync", "prompt"} =>
       \A r \in RelaySet : Ids(mMissing[r]) = HeldSomewhere \ Ids(mStore[r])
  /\ (mPc = "done" /\ mStats.totalFailed = 0) =>
       \A r, q \in RelaySet : Ids(mStore[r]) = Ids(mStore[q])

\* What is reachable on the relay of cleanup --orphans: the site-indexes whose
\* key an entrypoint's address tag names (every site-index when the relay has
\* no entrypoint), the manifests their JSON routes name and the assets those
\* manifests name.
ReachableIndexes ==
  {s \in Range(OfKind(oEvents, SITE_INDEX)) :
     \/ OfKind(oEvents, ENTRYPOINT) = <<>>
     \/ \E ep \in Range(OfKind(oEvents, ENTRYPOINT)) :
          HasATag(ep) /\ TargetKeyOf(ep) = DTagOf(s)}
ReachableManifests ==
  {m \in Range(OfKind(oEvents, MANIFEST)) :
     \E s \in ReachableIndexes : s.content.json /\ m.id \in Range(RouteIds(s))}
ReachableAssets ==
  {a \in Range(OfKind(oEvents, ASSET)) :
     \E m \in ReachableManifests : a.id \in Range(ETags(m))}

\* C30: analyzeOrphans reports an asset, a manifest or a site-index as
\* orphaned exactly when it is not reachable on the relay.
C30_OrphanIffUnreachable ==
  oPc = "analyzed" =>
    /\ Range(oAnalysis.indexes) = Range(OfKind(oEvents, SITE_INDEX)) \ ReachableIndexes
    /\ Range(oAnalysis.manifests) = Range(OfKind(oEvents, MANIFEST)) \ ReachableManifests
    /\ Range(oAnalysis.assets) = Range(OfKind(oEvents, ASSET)) \ ReachableAssets

\* C36: the target key analyzeEntrypoints returns is the key of the address
\* tag of the newest entrypoint it returns, null when that entrypoint has no
\* address tag.
C36_TargetKeyOfNewestItself ==
  pc \in {"exit", "insync", "prompt"} =>
    entrypointAnalysis.targetSiteIndexDTag =
      IF entrypointAnalysis.newestEntrypoint = NoEvent THEN NullKey
      ELSE TargetKeyOf(entrypointAnalysis.newestEntrypoint)

\* C37: the publish list of a relay never holds the same event id twice.
C37_PublishListWithoutRepeats ==
  \A r \in RelaySet :
    \A i, j \in DOMAIN Syncs(syncPlan[r]) :
      Syncs(syncPlan[r])[i].id = Syncs(syncPlan[r])[j].id => i = j

\* The relays of the plan that have something to delete or to publish.
RelaysWithActions == {r \in RelaySet : Planned(r) > 0}
RECURSIVE SumPlanned(_)
SumPlanned(R) ==
  IF R = {} THEN 0
  ELSE LET r == CHOOSE x \in R : TRUE IN Planned(r) + SumPlanned(R \ {r})

\* C38: when executeSyncPlan returns, the deleted, published and failed counts
\* add up to the number of planned deletions and publications of all relays,
\* and relaysUpdated is at most the number of relays that had any.
C38_StatsAccountForEveryAction ==
  pc = "done" =>
    /\ stats.totalDeleted + stats.totalPublished + stats.totalFailed =
         SumPlanned(RelaysWithActions)
    /\ stats.relaysUpdated <= Cardinality(RelaysWithActions)
\* executeSyncPlan has returned after one relay could not be connected to and
\* another one took an event.
C38_Witness ==
  /\ pc = "done"
  /\ \E r \in RelaySet : ConnectFailed(r) /\ Planned(r) > 0
  /\ stats.totalDeleted + stats.totalPublished > 0
  /\ stats.totalFailed > 0

\* A piece without the blanks at its two ends.
Stripped(piece) ==
  LET solid == {i \in DOMAIN piece : piece[i] # " "}
  IN IF solid = {} THEN <<>>
     ELSE SubSeq(piece, Min(solid), CHOOSE i \in solid : \A j \in solid : j <= i)
IsRelayEntry(piece) == Stripped(piece) # <<>> /\ Stripped(piece)[1] \in {"ws://", "wss://"}
\* The stripped relay entries of the first n pieces, in order.
RECURSIVE RelayEntries(_, _)
RelayEntries(pieces, n) ==
  IF n = 0 THEN <<>>
  ELSE RelayEntries(pieces, n - 1)
         \o (IF IsRelayEntry(pieces[n]) THEN <<Stripped(pieces[n])>> ELSE <<>>)

\* C35: parseRelayUrls returns an array as it is and, for a comma-separated
\* string, the trimmed entries that start with ws:// or wss://, in order
\* and nothing else.
C35_RelayUrlsParsed ==
  pPc = "returned" =>
    /\ pInput.type = "array" => pResult = pInput.value
    /\ pInput.type = "string" => pResult = RelayEntries(pInput.value, Len(pInput.value))
\* A string with a padded entry, an empty entry and an entry of another protocol.
C35_Witness ==
  /\ pPc = "returned"
  /\ pInput = StringValue(<< <<" ", "ws://", "r2", " ">>, <<" ">>, <<"http://", "r1">> >>)
  /\ pResult = << <<"ws://", "r2">> >>

\* C31: with --dry-run, cleanup in every mode sends no deletion event to any
\* relay and never reaches the prompt or the deletion step; without it,
\* deletion events are sent, and the deletion step is entered, only after the
\* operator's trimmed answer equals exactly "DELETE".
C31_DryRunAndConfirmationGate ==
  /\ cArgs.dryRun =>
       /\ \A r \in RelaySet : cSent[r] = <<>>
       /\ cAnswers = <<>>
       /\ cPc \notin {"prompt", "deleting", "done", "cancelled"}
  /\ (cPc \in {"deleting", "done"} \/ \E r \in RelaySet : cSent[r] # <<>>) =>
       /\ cAnswers # <<>>
       /\ Trim(cAnswers[Len(cAnswers)]) = <<"DELETE">>

\* A dry run of --version that found events to delete, and has ended.
C31_Witness ==
  /\ cArgs.dryRun /\ cPc = "dry"
  /\ CleanupMode(cArgs) = "version"
  /\ \E i \in DOMAIN cTargets : Len(cTargets[i].eventIds) >= 2

\* The events specific to a version, over everything the relays hold: its
\* site-index, the entrypoints targeting its key, the manifests of its routes
\* and the assets their "e" tags name, less what a site-index of another
\* version still references.
HeldEvents == UNION {Range(cStore[r]) : r \in RelaySet}
OtherVersions(version) ==
  {e \in HeldEvents : e.kind = SITE_INDEX /\ e.content.json /\ e.content.version # version}
SpecificTo(version) ==
  LET index == TargetSiteIndex(cStore, version)
      entrypoints == {e \in HeldEvents : e.kind = ENTRYPOINT /\ TargetKeyOf(e) = DTagOf(index)}
      otherManifestIds == UNION {Range(RouteIds(o)) : o \in OtherVersions(version)}
      otherManifests == {e \in HeldEvents : e.kind = MANIFEST /\ e.id \in otherManifestIds}
      otherAssetIds == UNION {Range(ETags(m)) : m \in otherManifests}
      manifests == {e \in HeldEvents : /\ e.kind = MANIFEST
                                        /\ e.id \in Range(RouteIds(index))
                                        /\ e.id \notin otherManifestIds}
      assets == {e \in HeldEvents : /\ e.kind = ASSET
                                     /\ e.id \in UNION {Range(ETags(m)) : m \in manifests}
                                     /\ e.id \notin otherAssetIds}
  IN {index.id} \cup {e.id : e \in entrypoints \cup manifests \cup assets}

\* C32: cleanup --version V requests deletion of exactly the events specific
\* to V: its site-index, the entrypoint targeting its key, the manifests of
\* its routes and the assets their "e" tags name, and of no manifest or asset
\* that another version still references.
C32_VersionCleanupExact ==
  (CleanupMode(cArgs) = "version" /\ cPc \in {"dry", "prompt"}) =>
    \A i \in DOMAIN cTargets :
      Range(cTargets[i].eventIds) = SpecificTo(cArgs.targetVersion)

\* The publications of an event sent to a relay, and whether it accepted one.
SendsOf(r, ev) == SelectSeq(dSends[r], LAMBDA s : s.event = ev)
AcceptedBy(r, ev) == \E i \in DOMAIN dSends[r] : dSends[r][i].event = ev /\ dSends[r][i].ok
RefusedBy(r, ev) == SendsOf(r, ev) # <<>> /\ ~AcceptedBy(r, ev)

\* C33: in deploy, whenever a connected relay fails to accept at least one
\* event of the run, a deletion request is issued to it for every event it
\* did accept in the run, and whenever deploy ends each connected relay holds
\* either all of the run's events or none of them.
C33_FailedRelayRolledBack ==
  dPc \in {"done", "threw"} =>
    \A r \in RelaySet :
      dConns[r] =>
        /\ (\E ev \in Range(dRun) : RefusedBy(r, ev)) =>
             \A ev \in Range(dRun) :
               AcceptedBy(r, ev) => \E j \in DOMAIN dDeleted[r] : dDeleted[r][j].event = ev
        /\ Range(dHeld[r]) \in {{}, Range(dRun)}

\* The events of the run whose counters are written: publishToRelays has
\* come to its forEach for them.
Tallied ==
  IF dPc = "threw" /\ ConnectedRelays # <<>> THEN 1..dE ELSE 1..(dE - 1)

\* C34: in publishToRelays each event is sent at most 3 times to a relay, a
\* relay that has accepted the event is not sent it again, and the published
\* and failed counters of a connected relay count the events it accepted in
\* the end and the events it did not, one for each event.
C34_RetriesAndCounters ==
  \A r \in RelaySet :
    /\ \A ev \in Range(dRun) :
         /\ Len(SendsOf(r, ev)) <= 3
         /\ \A i \in DOMAIN SendsOf(r, ev) : SendsOf(r, ev)[i].ok => i = Len(SendsOf(r, ev))
    /\ (dPc # "connect" /\ dConns[r] /\ ~dStats[r].rolledBack) =>
         /\ dStats[r].published = Cardinality({j \in Tallied : AcceptedBy(r, dRun[j])})
         /\ dStats[r].failed = Cardinality({j \in Tallied : ~AcceptedBy(r, dRun[j])})

\* An event that one relay refused three times and another accepted on the
\* second attempt, its counters written.
C34_Witness ==
  /\ dPc = "publish" /\ dE = 2
  /\ \E r1, r2 \in RelaySet :
       /\ Len(SendsOf(r1, dRun[1])) = 3 /\ ~AcceptedBy(r1, dRun[1])
       /\ Len(SendsOf(r2, dRun[1])) = 2 /\ AcceptedBy(r2, dRun[1])
       /\ dStats[r1].failed = 1 /\ dStats[r1].published = 0
       /\ dStats[r2].published = 1 /\ dStats[r2].failed = 0

\* C39: orphan cleanup reaches a fixed point in one pass: once every event
\* that analyzeOrphans of delete-orphans reported for a relay is removed from
\* the relay, analyzeOrphans on the remaining events reports no orphans.
C39_OnePassFixedPoint ==
  (xPasses >= 1 /\ xPc = "analyzed") => ReportedIds(xOrphans) = <<>>
====
